---- MODULE Spec2Model ----
(***************************************************************************)
(* Model of the routing core of dolab/httpdispatch: the per-method radix   *)
(* tree (register / insertChild / resolve / findCaseInsensitivePath) and   *)
(* the Dispatcher entry points that own one tree per HTTP method.          *)
(*                                                                         *)
(* A Go string is a sequence of one-byte strings (<<"/", "a">> is "/a").   *)
(* Go's 0-based half-open slice s[a:b] is Slice(s, a, b), s[i] is          *)
(* At(s, i).  A node is a record with the fields of the Go struct; the     *)
(* children slice is a sequence of node records, so a tree is one value.   *)
(* Operations that mutate in place and may panic return the mutated node   *)
(* together with the panic message ("" when the call returned normally),   *)
(* so that the partial mutation a recovered panic leaves behind is kept.   *)
(***************************************************************************)
EXTENDS Integers, Sequences, FiniteSets, TLC

VARIABLES trees, opts, routes, calls, dirty, last, mux, running

vars == <<trees, opts, routes, calls, dirty, last, mux, running>>

----------------------------------------------------------------------------
(* Bounds *)

\* number of Dispatcher.Handle calls explored
MaxRoutes == 3

\* number of Dispatcher.Handle calls explored in the serving scenario
MaxServeRoutes == 2

\* number of Dispatcher.Handle calls made before the concurrent lookups
MaxLookupRoutes == 2

\* number of lookup goroutines
MaxLookups == 2

\* number of goroutines calling Dispatcher.Handle at the same time
MaxHandlers == 2

----------------------------------------------------------------------------
(* Go strings and integers *)

Slice(s, a, b) == SubSeq(s, a + 1, b)

From(s, a) == SubSeq(s, a + 1, Len(s))

At(s, i) == s[i + 1]

minInt(a, b) == IF a < b THEN a ELSE b

\* the zero byte of the rune buffer
NUL == "NUL"

\* nil handler
NoHandle == 0

\* nil Params; an allocated Params is never returned empty
NilParams == <<>>

\* strings.IndexByte(s, c): first index of c in s, -1 when absent
RECURSIVE indexByteFrom(_, _, _)
indexByteFrom(s, c, i) ==
    IF i >= Len(s) THEN -1
    ELSE IF At(s, i) = c THEN i
    ELSE indexByteFrom(s, c, i + 1)

IndexByte(s, c) == indexByteFrom(s, c, 0)

\* number of ':' and '*' bytes of the path, saturating at 255
RECURSIVE countParamsFrom(_, _)
countParamsFrom(s, i) ==
    IF i >= Len(s) THEN 0
    ELSE (IF At(s, i) \in {":", "*"} THEN 1 ELSE 0) + countParamsFrom(s, i + 1)

countParams(uripath) == minInt(countParamsFrom(uripath, 0), 255)

----------------------------------------------------------------------------
(* node *)

NewNode ==
    [typo |-> "static", path |-> <<>>, nparams |-> 0, indices |-> <<>>,
     handle |-> NoHandle, priority |-> 0, children |-> <<>>, wildcard |-> FALSE]

Ret(n, msg) == [n |-> n, panic |-> msg]

\* position the bumped child bubbles to: left past every lower priority
RECURSIVE bubblePos(_, _, _)
bubblePos(children, priority, newPos) ==
    IF newPos > 0 /\ At(children, newPos - 1).priority < priority
    THEN bubblePos(children, priority, newPos - 1)
    ELSE newPos

\* incrementChildPriority moving the child and leaving indices as it was
incrementChildPriority_keepIndices(n, pos) ==
    LET bumped   == [At(n.children, pos) EXCEPT !.priority = @ + 1]
        newPos   == bubblePos(n.children, bumped.priority, pos)
        children == Slice(n.children, 0, newPos) \o <<bumped>> \o
                    Slice(n.children, newPos, pos) \o From(n.children, pos + 1)
    IN  [n |-> [n EXCEPT !.children = children], newPos |-> newPos]

\* increments priority of the given child and reorders if necessary
incrementChildPriority(n, pos) ==
    LET bumped   == [At(n.children, pos) EXCEPT !.priority = @ + 1]
        newPos   == bubblePos(n.children, bumped.priority, pos)
        children == Slice(n.children, 0, newPos) \o <<bumped>> \o
                    Slice(n.children, newPos, pos) \o From(n.children, pos + 1)
        indices  == IF newPos # pos
                    THEN Slice(n.indices, 0, newPos) \o Slice(n.indices, pos, pos + 1) \o
                         Slice(n.indices, newPos, pos) \o From(n.indices, pos + 1)
                    ELSE n.indices
    IN  [n |-> [n EXCEPT !.children = children, !.indices = indices], newPos |-> newPos]

\* end of the placeholder starting at i (either '/' or path end);
\* -1 when the name contains a second ':' or '*'
RECURSIVE wildcardEnd(_, _)
wildcardEnd(uripath, end) ==
    IF end < Len(uripath) /\ At(uripath, end) # "/"
    THEN IF At(uripath, end) \in {":", "*"} THEN -1 ELSE wildcardEnd(uripath, end + 1)
    ELSE end

\* catchAllChild leaving the wildcard flag of the first node clear
catchAllChild_noFlag(n, uripath, offset, i, handle) ==
    LET leaf  == [NewNode EXCEPT !.typo = "wildcard", !.path = From(uripath, i),
                                 !.nparams = 1, !.handle = handle, !.priority = 1]
        inter == [NewNode EXCEPT !.typo = "wildcard", !.nparams = 1,
                                 !.priority = 1, !.children = <<leaf>>]
    IN  [n EXCEPT !.path = Slice(uripath, offset, i), !.children = <<inter>>,
                  !.indices = <<At(uripath, i)>>]

\* the two nodes a catch-all is stored as, hung below n
catchAllChild(n, uripath, offset, i, handle) ==
    LET leaf  == [NewNode EXCEPT !.typo = "wildcard", !.path = From(uripath, i),
                                 !.nparams = 1, !.handle = handle, !.priority = 1]
        inter == [NewNode EXCEPT !.typo = "wildcard", !.nparams = 1, !.wildcard = TRUE,
                                 !.priority = 1, !.children = <<leaf>>]
    IN  [n EXCEPT !.path = Slice(uripath, offset, i), !.children = <<inter>>,
                  !.indices = <<At(uripath, i)>>]

RECURSIVE insertChildLoop(_, _, _, _, _, _)
insertChildLoop(n, numParams, uripath, offset, i, handle) ==
    IF numParams = 0
    THEN Ret([n EXCEPT !.path = From(uripath, offset), !.handle = handle], "")
    ELSE IF i >= Len(uripath)
    THEN Ret(n, "index out of range")
    ELSE IF At(uripath, i) \notin {":", "*"}
    THEN insertChildLoop(n, numParams, uripath, offset, i + 1, handle)
    ELSE
      LET c   == At(uripath, i)
          max == Len(uripath)
          end == wildcardEnd(uripath, i + 1)
      IN
      IF end = -1
      THEN Ret(n, "only one wildcard per path segment is allowed")
      ELSE IF Len(n.children) > 0
      THEN Ret(n, "wildcard route conflicts with existing children")
      ELSE IF end - i < 2
      THEN Ret(n, "wildcard must be named with a non-empty name")
      ELSE IF c = ":"
      THEN
        LET n1      == IF i > 0 THEN [n EXCEPT !.path = Slice(uripath, offset, i)] ELSE n
            offset1 == IF i > 0 THEN i ELSE offset
            child   == [NewNode EXCEPT !.typo = "param", !.nparams = numParams,
                                       !.priority = 1]
        IN
        IF end < max
        THEN
          LET grand == [NewNode EXCEPT !.nparams = numParams - 1, !.priority = 1]
              r     == insertChildLoop(grand, numParams - 1, uripath, end, i + 1, handle)
              child1 == [child EXCEPT !.path = Slice(uripath, offset1, end),
                                      !.children = <<r.n>>]
          IN  Ret([n1 EXCEPT !.children = <<child1>>, !.wildcard = TRUE], r.panic)
        ELSE
          LET r == insertChildLoop(child, numParams - 1, uripath, offset1, i + 1, handle)
          IN  Ret([n1 EXCEPT !.children = <<r.n>>, !.wildcard = TRUE], r.panic)
      ELSE
        IF end # max \/ numParams > 1
        THEN Ret(n, "catch-all routes are only allowed at the end of the path")
        ELSE IF Len(n.path) > 0 /\ At(n.path, Len(n.path) - 1) = "/"
        THEN Ret(n, "catch-all conflicts with existing handle for the path segment root")
        ELSE IF i - 1 < 0
        THEN Ret(n, "index out of range")
        ELSE IF At(uripath, i - 1) # "/"
        THEN Ret(n, "no / before catch-all")
        ELSE Ret(catchAllChild(n, uripath, offset, i - 1, handle), "")

insertChild(n, numParams, uripath, handle) ==
    insertChildLoop(n, numParams, uripath, 0, 0, handle)

\* length of the longest common prefix of the remaining path and n.path
RECURSIVE commonPrefix(_, _, _)
commonPrefix(uripath, path, i) ==
    IF i < minInt(Len(uripath), Len(path)) /\ At(uripath, i) = At(path, i)
    THEN commonPrefix(uripath, path, i + 1)
    ELSE i

\* nparams of the node split off: max of all children
RECURSIVE maxChildParams(_, _)
maxChildParams(children, k) ==
    IF k >= Len(children) THEN 0
    ELSE LET rest == maxChildParams(children, k + 1)
         IN  IF At(children, k).nparams > rest THEN At(children, k).nparams ELSE rest

\* splitEdge giving the child the priority the node has after its bump
splitEdge_keepPriority(n, uripath, i) ==
    LET child == [typo |-> "static", path |-> From(n.path, i), wildcard |-> n.wildcard,
                  indices |-> n.indices, children |-> n.children, handle |-> n.handle,
                  priority |-> n.priority,
                  nparams |-> maxChildParams(n.children, 0)]
    IN  [n EXCEPT !.children = <<child>>, !.indices = <<At(n.path, i)>>,
                  !.path = Slice(uripath, 0, i), !.handle = NoHandle, !.wildcard = FALSE]

\* split the edge of n at byte i of its path
splitEdge(n, uripath, i) ==
    LET child == [typo |-> "static", path |-> From(n.path, i), wildcard |-> n.wildcard,
                  indices |-> n.indices, children |-> n.children, handle |-> n.handle,
                  priority |-> n.priority - 1,
                  nparams |-> maxChildParams(n.children, 0)]
    IN  [n EXCEPT !.children = <<child>>, !.indices = <<At(n.path, i)>>,
                  !.path = Slice(uripath, 0, i), !.handle = NoHandle, !.wildcard = FALSE]

\* wildcardMatches without the check for a longer wildcard name
wildcardMatches_prefixOnly(npath, uripath) ==
    /\ Len(uripath) >= Len(npath)
    /\ npath = Slice(uripath, 0, Len(npath))

\* the existing wildcard child matches the next segment of the new path
wildcardMatches(npath, uripath) ==
    /\ Len(uripath) >= Len(npath)
    /\ npath = Slice(uripath, 0, Len(npath))
    /\ (Len(npath) >= Len(uripath) \/ At(uripath, Len(npath)) = "/")

\* makeLeaf without the check for an existing handle: the new handle
\* replaces the registered one
makeLeaf_overwrite(n, handle) == Ret([n EXCEPT !.handle = handle], "")

\* make node a (in-uripath) leaf: a second handle for the path is refused
makeLeaf(n, handle) ==
    IF n.handle # NoHandle
    THEN Ret(n, "a handle is already registered for path")
    ELSE Ret([n EXCEPT !.handle = handle], "")

\* put the result of the walk below children[pos] back under n
below(n, pos, r) == Ret([n EXCEPT !.children[pos + 1] = r.n], r.panic)

\* raiseParams leaving the node's nparams as it was
raiseParams_keep(nparams, maxParams) == nparams

\* update nparams of a node the new path passes: max of all routes through it
raiseParams(nparams, maxParams) == IF maxParams > nparams THEN maxParams ELSE nparams

RECURSIVE walk(_, _, _, _)
walk(n0, uripath0, maxParams, handle) ==
    LET n1 == [n0 EXCEPT !.nparams = raiseParams(@, maxParams)]
        i  == commonPrefix(uripath0, n1.path, 0)
        n  == IF i < Len(n1.path) THEN splitEdge(n1, uripath0, i) ELSE n1
    IN
    IF i < Len(uripath0)
    THEN
      LET uripath == From(uripath0, i)
          c       == At(uripath, 0)
          pos     == indexByteFrom(n.indices, c, 0)
      IN
      IF n.wildcard
      THEN
        LET child == [At(n.children, 0) EXCEPT
                        !.priority = @ + 1,
                        !.nparams = raiseParams(@, maxParams)]
        IN  IF wildcardMatches(child.path, uripath)
            THEN below(n, 0, walk(child, uripath, (maxParams - 1) % 256, handle))
            ELSE below(n, 0, Ret(child, "conflicts with existing wildcard"))
      ELSE IF n.typo = "param" /\ c = "/" /\ Len(n.children) = 1
      THEN
        LET child == [At(n.children, 0) EXCEPT !.priority = @ + 1]
        IN  below(n, 0, walk(child, uripath, maxParams, handle))
      ELSE IF pos # -1
      THEN
        LET inc == incrementChildPriority(n, pos)
        IN  below(inc.n, inc.newPos,
                  walk(At(inc.n.children, inc.newPos), uripath, maxParams, handle))
      ELSE IF c # ":" /\ c # "*"
      THEN
        LET child == [NewNode EXCEPT !.nparams = maxParams]
            grown == [n EXCEPT !.indices = @ \o <<c>>, !.children = Append(@, child)]
            inc   == incrementChildPriority(grown, Len(grown.indices) - 1)
        IN  below(inc.n, inc.newPos,
                  insertChild(At(inc.n.children, inc.newPos), maxParams, uripath, handle))
      ELSE insertChild(n, maxParams, uripath, handle)
    ELSE
      \* i = Len(uripath0): make the node a leaf
      makeLeaf(n, handle)

\* node.register: the mutated root and the panic message ("" when none)
register(n, uripath, handle) ==
    LET n1        == [n EXCEPT !.priority = @ + 1]
        maxParams == countParams(uripath)
    IN  IF Len(n1.path) > 0 \/ Len(n1.children) > 0
        THEN walk(n1, uripath, maxParams, handle)
        ELSE insertChild([n1 EXCEPT !.typo = "root"], maxParams, uripath, handle)

----------------------------------------------------------------------------
(* node.resolve *)

Res(handle, p, tsr) == [handle |-> handle, p |-> p, tsr |-> tsr, panic |-> ""]

ResPanic(p, msg) == [handle |-> NoHandle, p |-> p, tsr |-> FALSE, panic |-> msg]

Param(key, value) == [Key |-> key, Value |-> value]

\* value captured by a ':name' node: the bytes up to the next '/' or the end
paramEnd(uripath) ==
    IF IndexByte(uripath, "/") = -1 THEN Len(uripath) ELSE IndexByte(uripath, "/")

\* value captured by a '*name' node
catchAllValue(uripath) == From(uripath, 1)

\* the path ends one "/" after a node that carries a handle
swiftStop(n, uripath) == uripath = <<"/">> /\ n.handle # NoHandle

\* uripath == n.path: the node that should carry the handle
resolveExact(n, uripath, p) ==
    IF n.handle # NoHandle
    THEN Res(n.handle, p, FALSE)
    ELSE IF uripath = <<"/">> /\ n.wildcard /\ n.typo # "root"
    THEN Res(NoHandle, p, TRUE)
    ELSE
      LET pos == indexByteFrom(n.indices, "/", 0)
      IN  IF pos = -1
          THEN Res(NoHandle, p, FALSE)
          ELSE
            LET c == At(n.children, pos)
            IN  IF Len(c.path) = 1 /\ c.handle # NoHandle
                THEN Res(c.handle, p, TRUE)
                ELSE IF c.typo = "wildcard" /\ At(c.children, 0).handle # NoHandle
                THEN Res(At(c.children, 0).handle, p, TRUE)
                ELSE Res(NoHandle, p, FALSE)

\* nothing found: recommend the redirect when a leaf exists for that path
resolveMiss(n, uripath, p) ==
    IF uripath = <<"/">>
    THEN Res(NoHandle, p, TRUE)
    ELSE IF /\ Len(n.path) = Len(uripath) + 1
            /\ At(n.path, Len(uripath)) = "/"
            /\ uripath = Slice(n.path, 0, Len(n.path) - 1)
            /\ n.handle # NoHandle
    THEN Res(n.handle, p, TRUE)
    ELSE Res(NoHandle, p, FALSE)

\* appendParam putting the new param in front of those captured before
appendParam_front(p, key, value) == <<Param(key, value)>> \o p

\* save param value: the slice grows by one and the new param is its last
appendParam(p, key, value) == Append(p, Param(key, value))

\* p is the params slice so far (NilParams before the first wildcard) and
\* cap its capacity, fixed by the first wildcard node crossed
RECURSIVE resolveWalk(_, _, _, _)
resolveWalk(n, uripath0, p0, cap0) ==
    IF Len(uripath0) > Len(n.path)
    THEN
      IF Slice(uripath0, 0, Len(n.path)) # n.path
      THEN resolveMiss(n, uripath0, p0)
      ELSE
        LET uripath == From(uripath0, Len(n.path))
        IN
        IF ~n.wildcard
        THEN
          IF swiftStop(n, uripath)
          THEN Res(n.handle, p0, TRUE)
          ELSE
            LET pos == indexByteFrom(n.indices, At(uripath, 0), 0)
            IN  IF pos # -1
                THEN resolveWalk(At(n.children, pos), uripath, p0, cap0)
                ELSE Res(NoHandle, p0, FALSE)
        ELSE
          LET c   == At(n.children, 0)
              p1  == p0
              cap == IF Len(p0) = 0 THEN c.nparams ELSE cap0
          IN
          IF c.typo = "param"
          THEN
            LET end == paramEnd(uripath)
                p   == appendParam(p1, From(c.path, 1), Slice(uripath, 0, end))
            IN
            IF Len(p1) + 1 > cap
            THEN ResPanic(p1, "slice bounds out of range")
            ELSE IF end < Len(uripath)
            THEN
              IF swiftStop(c, From(uripath, end))
              THEN Res(c.handle, p, TRUE)
              ELSE IF Len(c.children) > 0
              THEN resolveWalk(At(c.children, 0), From(uripath, end), p, cap)
              ELSE Res(NoHandle, p, FALSE)
            ELSE IF c.handle # NoHandle
            THEN Res(c.handle, p, FALSE)
            ELSE IF Len(c.children) = 1
            THEN
              LET g == At(c.children, 0)
              IN  IF g.path = <<"/">> /\ g.handle # NoHandle
                  THEN Res(g.handle, p, TRUE)
                  ELSE Res(NoHandle, p, FALSE)
            ELSE Res(NoHandle, p, FALSE)
          ELSE IF c.typo = "wildcard"
          THEN
            IF Len(p1) + 1 > cap
            THEN ResPanic(p1, "slice bounds out of range")
            ELSE Res(c.handle,
                     appendParam(p1, From(c.path, 2), catchAllValue(uripath)), FALSE)
          ELSE ResPanic(p1, "invalid node type")
    ELSE IF uripath0 = n.path
    THEN resolveExact(n, uripath0, p0)
    ELSE resolveMiss(n, uripath0, p0)

resolve(n, uripath) == resolveWalk(n, uripath, NilParams, 0)

\* One iteration of the walk loop of resolve, for a lookup that proceeds
\* while other goroutines run: either the lookup returns (Stop) or it moves
\* to a node further down (Down), named by the child positions to follow
\* from the current node, with the rest of the path and the params so far.

Stop(res) ==
    [done |-> TRUE, res |-> res, down |-> <<>>, uripath |-> <<>>, p |-> NilParams,
     cap |-> 0]

Down(down, uripath, p, cap) ==
    [done |-> FALSE, res |-> Res(NoHandle, NilParams, FALSE), down |-> down,
     uripath |-> uripath, p |-> p, cap |-> cap]

resolveStep(n, uripath0, p0, cap0) ==
    IF Len(uripath0) > Len(n.path)
    THEN
      IF Slice(uripath0, 0, Len(n.path)) # n.path
      THEN Stop(resolveMiss(n, uripath0, p0))
      ELSE
        LET uripath == From(uripath0, Len(n.path))
        IN
        IF ~n.wildcard
        THEN
          IF swiftStop(n, uripath)
          THEN Stop(Res(n.handle, p0, TRUE))
          ELSE
            LET pos == indexByteFrom(n.indices, At(uripath, 0), 0)
            IN  IF pos # -1
                THEN Down(<<pos>>, uripath, p0, cap0)
                ELSE Stop(Res(NoHandle, p0, FALSE))
        ELSE
          LET c   == At(n.children, 0)
              cap == IF Len(p0) = 0 THEN c.nparams ELSE cap0
          IN
          IF c.typo = "param"
          THEN
            LET end == paramEnd(uripath)
                p   == appendParam(p0, From(c.path, 1), Slice(uripath, 0, end))
            IN
            IF Len(p0) + 1 > cap
            THEN Stop(ResPanic(p0, "slice bounds out of range"))
            ELSE IF end < Len(uripath)
            THEN
              IF swiftStop(c, From(uripath, end))
              THEN Stop(Res(c.handle, p, TRUE))
              ELSE IF Len(c.children) > 0
              THEN Down(<<0, 0>>, From(uripath, end), p, cap)
              ELSE Stop(Res(NoHandle, p, FALSE))
            ELSE IF c.handle # NoHandle
            THEN Stop(Res(c.handle, p, FALSE))
            ELSE IF Len(c.children) = 1
            THEN
              LET g == At(c.children, 0)
              IN  IF g.path = <<"/">> /\ g.handle # NoHandle
                  THEN Stop(Res(g.handle, p, TRUE))
                  ELSE Stop(Res(NoHandle, p, FALSE))
            ELSE Stop(Res(NoHandle, p, FALSE))
          ELSE IF c.typo = "wildcard"
          THEN
            IF Len(p0) + 1 > cap
            THEN Stop(ResPanic(p0, "slice bounds out of range"))
            ELSE Stop(Res(c.handle,
                          appendParam(p0, From(c.path, 2), catchAllValue(uripath)), FALSE))
          ELSE Stop(ResPanic(p0, "invalid node type"))
    ELSE IF uripath0 = n.path
    THEN Stop(resolveExact(n, uripath0, p0))
    ELSE Stop(resolveMiss(n, uripath0, p0))

\* the node reached from n by following the child positions of cursor
RECURSIVE NodeAt(_, _)
NodeAt(n, cursor) ==
    IF Len(cursor) = 0 THEN n
    ELSE NodeAt(At(n.children, At(cursor, 0)), From(cursor, 1))

----------------------------------------------------------------------------
(* node.findCaseInsensitivePath *)

\* the ASCII letters, lower case and upper case, in alphabetical order;
\* every byte of a path is a whole rune
LowerLetters ==
    <<"a", "b", "c", "d", "e", "f", "g", "h", "i", "j", "k", "l", "m",
      "n", "o", "p", "q", "r", "s", "t", "u", "v", "w", "x", "y", "z">>

UpperLetters ==
    <<"A", "B", "C", "D", "E", "F", "G", "H", "I", "J", "K", "L", "M",
      "N", "O", "P", "Q", "R", "S", "T", "U", "V", "W", "X", "Y", "Z">>

\* the position of byte c in the letters of ls, 0 when it is none of them
LetterIndex(ls, c) ==
    IF \E k \in 1..Len(ls) : ls[k] = c
    THEN CHOOSE k \in 1..Len(ls) : ls[k] = c
    ELSE 0

LowerOf(c) ==
    IF LetterIndex(UpperLetters, c) > 0
    THEN LowerLetters[LetterIndex(UpperLetters, c)]
    ELSE c

UpperOf(c) ==
    IF LetterIndex(LowerLetters, c) > 0
    THEN UpperLetters[LetterIndex(LowerLetters, c)]
    ELSE c

\* strings.ToLower
ToLower(s) == [k \in 1..Len(s) |-> LowerOf(s[k])]

\* strings.ToUpper
ToUpper(s) == [k \in 1..Len(s) |-> UpperOf(s[k])]

EmptyRuneBuf == <<NUL, NUL, NUL, NUL>>

\* utf8.EncodeRune of a one-byte rune into the rune buffer
EncodeRune(rv) == <<rv, NUL, NUL, NUL>>

\* shift the first n bytes out of the rune buffer
shiftNRuneBytes(rb, n) ==
    CASE n = 0 -> rb
      [] n = 1 -> <<rb[2], rb[3], rb[4], NUL>>
      [] n = 2 -> <<rb[3], rb[4], NUL, NUL>>
      [] n = 3 -> <<rb[4], NUL, NUL, NUL>>
      [] OTHER -> EmptyRuneBuf

Ci(path, found) == [path |-> path, found |-> found, panic |-> ""]

CiPanic(path, msg) == [path |-> path, found |-> FALSE, panic |-> msg]

\* the loop condition: the lowercase node path is a prefix of the lowercase
\* request path, the first byte having been matched through indices
ciPrefix(lowerPath, lowerNodePath) ==
    /\ Len(lowerPath) >= Len(lowerNodePath)
    /\ \/ Len(lowerNodePath) = 0
       \/ Slice(lowerPath, 1, Len(lowerNodePath)) = From(lowerNodePath, 1)

\* the rune starting at the end of the node path, read from the cached
\* lowercase path; the zero rune when the node path is empty
nextRune(oldPath, lowerNodePath) ==
    IF minInt(Len(lowerNodePath), 3) > 0 THEN At(oldPath, Len(lowerNodePath)) ELSE NUL

\* ciStaticMiss that never fixes the trailing slash
ciStaticMiss_noFix(n, uripath, newPath, fixTrailingSlash) == Ci(newPath, FALSE)

\* the static fallback: fix an extra trailing slash after a leaf
ciStaticMiss(n, uripath, newPath, fixTrailingSlash) ==
    Ci(newPath, fixTrailingSlash /\ uripath = <<"/">> /\ n.handle # NoHandle)

\* the whole path is consumed at node n
ciExact(n, newPath, fixTrailingSlash) ==
    IF n.handle # NoHandle
    THEN Ci(newPath, TRUE)
    ELSE IF fixTrailingSlash /\ indexByteFrom(n.indices, "/", 0) # -1
    THEN
      LET c == At(n.children, indexByteFrom(n.indices, "/", 0))
      IN  IF \/ Len(c.path) = 1 /\ c.handle # NoHandle
             \/ c.typo = "wildcard" /\ At(c.children, 0).handle # NoHandle
          THEN Ci(Append(newPath, "/"), TRUE)
          ELSE Ci(newPath, FALSE)
    ELSE Ci(newPath, FALSE)

\* the loop condition failed at node n: add / remove a trailing slash
ciFinalFix(n, uripath, lowerPath, newPath, fixTrailingSlash) ==
    LET lowerNodePath == ToLower(n.path)
    IN
    IF ~fixTrailingSlash
    THEN Ci(newPath, FALSE)
    ELSE IF uripath = <<"/">>
    THEN Ci(newPath, TRUE)
    ELSE IF /\ Len(lowerPath) + 1 = Len(lowerNodePath)
            /\ At(lowerNodePath, Len(lowerPath)) = "/"
    THEN
      IF Len(lowerPath) < 1
      THEN CiPanic(newPath, "slice bounds out of range")
      ELSE IF /\ From(lowerPath, 1) = Slice(lowerNodePath, 1, Len(lowerPath))
              /\ n.handle # NoHandle
      THEN Ci(newPath \o n.path, TRUE)
      ELSE Ci(newPath, FALSE)
    ELSE Ci(newPath, FALSE)

RECURSIVE findCaseInsensitivePathRec(_, _, _, _, _, _)
findCaseInsensitivePathRec(n, uripath0, lowerPath0, newPath0, rb0, fixTrailingSlash) ==
    LET lowerNodePath == ToLower(n.path)
    IN
    IF ~ciPrefix(lowerPath0, lowerNodePath)
    THEN ciFinalFix(n, uripath0, lowerPath0, newPath0, fixTrailingSlash)
    ELSE
      LET newPath   == newPath0 \o n.path
          uripath   == From(uripath0, Len(n.path))
          oldPath   == lowerPath0
          lowerPath == From(lowerPath0, Len(lowerNodePath))
      IN
      IF Len(uripath) = 0
      THEN ciExact(n, newPath, fixTrailingSlash)
      ELSE IF ~n.wildcard
      THEN
        LET rb1 == shiftNRuneBytes(rb0, Len(lowerNodePath))
        IN
        IF rb1[1] # NUL
        THEN
          \* old rune not finished
          LET pos == indexByteFrom(n.indices, rb1[1], 0)
          IN  IF pos # -1
              THEN findCaseInsensitivePathRec(At(n.children, pos), uripath, lowerPath,
                                              newPath, rb1, fixTrailingSlash)
              ELSE ciStaticMiss(n, uripath, newPath, fixTrailingSlash)
        ELSE
          \* process a new rune
          LET rv    == nextRune(oldPath, lowerNodePath)
              rbLo  == EncodeRune(rv)
              posLo == indexByteFrom(n.indices, rbLo[1], 0)
              lo    == IF posLo # -1
                       THEN findCaseInsensitivePathRec(At(n.children, posLo), uripath,
                                lowerPath, newPath, rbLo, fixTrailingSlash)
                       ELSE Ci(newPath, FALSE)
              up    == UpperOf(rv)
              rbUp  == EncodeRune(up)
              posUp == indexByteFrom(n.indices, rbUp[1], 0)
          IN
          IF posLo # -1 /\ lo.panic # ""
          THEN lo
          ELSE IF posLo # -1 /\ lo.found
          THEN lo
          ELSE IF up # rv /\ posUp # -1
          THEN findCaseInsensitivePathRec(At(n.children, posUp), uripath, lowerPath,
                                          newPath, rbUp, fixTrailingSlash)
          ELSE ciStaticMiss(n, uripath, newPath, fixTrailingSlash)
      ELSE
        LET c == At(n.children, 0)
        IN
        IF c.typo = "param"
        THEN
          LET k  == paramEnd(uripath)
              np == newPath \o Slice(uripath, 0, k)
          IN
          IF k < Len(uripath)
          THEN
            IF Len(c.children) > 0
            THEN findCaseInsensitivePathRec(At(c.children, 0), From(uripath, k),
                                            From(lowerPath, k), np, rb0, fixTrailingSlash)
            ELSE Ci(np, fixTrailingSlash /\ Len(uripath) = k + 1)
          ELSE IF c.handle # NoHandle
          THEN Ci(np, TRUE)
          ELSE IF /\ fixTrailingSlash
                  /\ Len(c.children) = 1
                  /\ At(c.children, 0).path = <<"/">>
                  /\ At(c.children, 0).handle # NoHandle
          THEN Ci(Append(np, "/"), TRUE)
          ELSE Ci(np, FALSE)
        ELSE IF c.typo = "wildcard"
        THEN Ci(newPath \o uripath, TRUE)
        ELSE CiPanic(newPath, "invalid node type")

findCaseInsensitivePath(n, uripath, fixTrailingSlash) ==
    findCaseInsensitivePathRec(n, uripath, ToLower(uripath), <<>>, EmptyRuneBuf,
                               fixTrailingSlash)

----------------------------------------------------------------------------
(* Dispatcher *)

\* Dispatcher.trees is a function from the methods that have a tree to
\* their root; the nil map of a new Dispatcher has the empty domain

NoTrees == <<>>

\* New(): path auto-correction and trailing slashes enabled by default; the
\* handler fields NotFound, MethodNotAllowed and MethodOptions are nil
\* (FALSE), TRUE stands for a handler installed by the caller
New ==
    [RedirectTrailingSlash |-> TRUE, RedirectFixedPath |-> TRUE,
     HandleMethodNotAllowed |-> TRUE, HandleMethodOPTIONS |-> TRUE,
     NotFound |-> FALSE, MethodNotAllowed |-> FALSE, MethodOptions |-> FALSE]

\* Dispatcher.Lookup
Lookup(tr, method, uripath) ==
    IF method \in DOMAIN tr
    THEN resolve(tr[method], uripath)
    ELSE Res(NoHandle, NilParams, FALSE)

\* Handle with the test of the first byte made after the tree of the
\* method is created
Handle_lateCheck(tr, method, uripath, handler) ==
    LET root  == IF method \in DOMAIN tr THEN tr[method] ELSE NewNode
        grown == [m \in DOMAIN tr \cup {method} |-> IF m = method THEN root ELSE tr[m]]
    IN  IF Len(uripath) = 0
        THEN [trees |-> grown, panic |-> "index out of range"]
        ELSE IF At(uripath, 0) # "/"
        THEN [trees |-> grown, panic |-> "path must begin with '/'"]
        ELSE LET r == register(root, uripath, handler)
             IN  [trees |-> [grown EXCEPT ![method] = r.n], panic |-> r.panic]

\* Dispatcher.Handle: the trees after the call and the panic message
Handle(tr, method, uripath, handler) ==
    IF Len(uripath) = 0
    THEN [trees |-> tr, panic |-> "index out of range"]
    ELSE IF At(uripath, 0) # "/"
    THEN [trees |-> tr, panic |-> "path must begin with '/'"]
    ELSE
      LET root == IF method \in DOMAIN tr THEN tr[method] ELSE NewNode
          r    == register(root, uripath, handler)
      IN  [trees |-> [m \in DOMAIN tr \cup {method} |->
                        IF m = method THEN r.n ELSE tr[m]],
           panic |-> r.panic]

\* path normalization before the case-insensitive lookup: the path is made
\* rooted, repeated slashes collapse, '.' elements are dropped, a '..'
\* element is dropped together with the element before it (at the root
\* there is none to drop), and a trailing slash is kept

\* the length the output is cut back to by a '..' element: back to the
\* last '/' written, the root excepted
RECURSIVE backUp(_, _)
backUp(buf, w) ==
    IF w > 1 /\ At(buf, w) # "/" THEN backUp(buf, w - 1) ELSE w

\* the end of the path element that starts at r
RECURSIVE elementEnd(_, _)
elementEnd(p, r) ==
    IF r < Len(p) /\ At(p, r) # "/" THEN elementEnd(p, r + 1) ELSE r

\* the scan of Normalize from read position r on, with buf written so far
RECURSIVE cleanLoop(_, _, _, _)
cleanLoop(p, r, buf, trailing) ==
    LET n == Len(p)
        w == Len(buf)
    IN  IF r >= n
        THEN IF trailing /\ w > 1 THEN buf \o <<"/">> ELSE buf
        ELSE IF At(p, r) = "/"
        THEN cleanLoop(p, r + 1, buf, trailing)
        ELSE IF At(p, r) = "." /\ r + 1 = n
        THEN cleanLoop(p, r + 1, buf, TRUE)
        ELSE IF At(p, r) = "." /\ At(p, r + 1) = "/"
        THEN cleanLoop(p, r + 1, buf, trailing)
        ELSE IF At(p, r) = "." /\ At(p, r + 1) = "."
                /\ (r + 2 = n \/ At(p, r + 2) = "/")
        THEN cleanLoop(p, r + 2,
                       IF w > 1 THEN Slice(buf, 0, backUp(buf, w - 1)) ELSE buf,
                       trailing)
        ELSE LET e == elementEnd(p, r)
             IN  cleanLoop(p, e,
                           (IF w > 1 THEN buf \o <<"/">> ELSE buf) \o Slice(p, r, e),
                           trailing)

Normalize(uripath) ==
    IF Len(uripath) = 0 THEN <<"/">>
    ELSE cleanLoop(uripath,
                   IF At(uripath, 0) = "/" THEN 1 ELSE 0,
                   <<"/">>,
                   Len(uripath) > 2 /\ At(uripath, Len(uripath) - 1) = "/")

\* allowed counting the routes registered for OPTIONS as well
allowed_withOptions(tr, uripath, origMethod) ==
    IF uripath = <<"*">>
    THEN DOMAIN tr
    ELSE {m \in DOMAIN tr : /\ m # origMethod
                            /\ resolve(tr[m], uripath).handle # NoHandle}

\* the methods the Allow header lists, before ", OPTIONS" is appended:
\* server-wide for "*", else the other methods that resolve the path
allowed(tr, uripath, origMethod) ==
    IF uripath = <<"*">>
    THEN {m \in DOMAIN tr : m # "OPTIONS"}
    ELSE {m \in DOMAIN tr : /\ m # origMethod
                            /\ m # "OPTIONS"
                            /\ resolve(tr[m], uripath).handle # NoHandle}

\* what ServeHTTP did: the route handler it invoked with its params, the
\* redirect it wrote (location is the path it put in r.URL.Path for
\* http.Redirect), or the reply it wrote or delegated; custom tells that
\* the reply was left to the handler installed by the caller, and code is
\* the status ServeHTTP or the net/http default handler wrote (0 when the
\* status is up to a handler)
Resp(kind, handler, params, code, location, allow, custom) ==
    [kind |-> kind, handler |-> handler, params |-> params, code |-> code,
     location |-> location, allow |-> allow, custom |-> custom]

\* redirectCode answering every method with the permanent redirect
redirectCode_always301(method) == 301

\* Permanent redirect for GET, temporary redirect with the same method else
redirectCode(method) == IF method = "GET" THEN 301 ELSE 307

\* the path of the trailing-slash redirect
toggleSlash(uripath) ==
    IF Len(uripath) > 1 /\ At(uripath, Len(uripath) - 1) = "/"
    THEN Slice(uripath, 0, Len(uripath) - 1)
    ELSE Append(uripath, "/")

\* Dispatcher.notfound: the NotFound handler when set, http.NotFound else
notfound(o) ==
    Resp("notfound", NoHandle, NilParams, IF o.NotFound THEN 0 ELSE 404, <<>>, {},
         o.NotFound)

\* serveFallback answering 405 also when HandleMethodNotAllowed is cleared
serveFallback_always405(tr, o, method, uripath) ==
    LET allow == allowed(tr, uripath, method)
    IN  IF method = "OPTIONS"
        THEN IF o.HandleMethodOPTIONS /\ allow # {}
             THEN Resp("options", NoHandle, NilParams, 0, <<>>,
                       allow \cup {"OPTIONS"}, o.MethodOptions)
             ELSE notfound(o)
        ELSE IF allow # {}
             THEN Resp("notallowed", NoHandle, NilParams,
                       IF o.MethodNotAllowed THEN 0 ELSE 405, <<>>,
                       allow \cup {"OPTIONS"}, o.MethodNotAllowed)
             ELSE notfound(o)

\* ServeHTTP after the tree of the method gave neither handler nor redirect
serveFallback(tr, o, method, uripath) ==
    LET allow == allowed(tr, uripath, method)
    IN  IF method = "OPTIONS"
        THEN IF o.HandleMethodOPTIONS /\ allow # {}
             THEN Resp("options", NoHandle, NilParams, 0, <<>>,
                       allow \cup {"OPTIONS"}, o.MethodOptions)
             ELSE notfound(o)
        ELSE IF o.HandleMethodNotAllowed /\ allow # {}
             THEN Resp("notallowed", NoHandle, NilParams,
                       IF o.MethodNotAllowed THEN 0 ELSE 405, <<>>,
                       allow \cup {"OPTIONS"}, o.MethodNotAllowed)
             ELSE notfound(o)

ServeHTTP(tr, o, method, uripath) ==
    IF method \notin DOMAIN tr
    THEN serveFallback(tr, o, method, uripath)
    ELSE
      LET root == tr[method]
          r    == resolve(root, uripath)
          ci   == findCaseInsensitivePath(root, Normalize(uripath), o.RedirectTrailingSlash)
      IN
      IF r.panic # ""
      THEN Resp("panic", NoHandle, NilParams, 0, <<>>, {}, FALSE)
      ELSE IF r.handle # NoHandle
      THEN IF ~r.tsr \/ ~o.RedirectTrailingSlash
           THEN Resp("handle", r.handle, r.p, 0, <<>>, {}, FALSE)
           ELSE Resp("redirect", NoHandle, NilParams, redirectCode(method),
                     toggleSlash(uripath), {}, FALSE)
      ELSE IF o.RedirectFixedPath /\ method # "CONNECT" /\ uripath # <<"/">>
      THEN IF ci.panic # ""
           THEN Resp("panic", NoHandle, NilParams, 0, <<>>, {}, FALSE)
           ELSE IF ci.found
           THEN Resp("redirect", NoHandle, NilParams, redirectCode(method), ci.path,
                     {}, FALSE)
           ELSE serveFallback(tr, o, method, uripath)
      ELSE serveFallback(tr, o, method, uripath)

----------------------------------------------------------------------------
(* The dispatcher driven by one caller: a call is made, its result is      *)
(* recorded in last, and the caller takes the result before the next call. *)

Methods == {"GET", "POST"}

\* the method routes are registered for
RegMethods == {"GET"}

\* route patterns offered to Handle; those from '/:' on are malformed
Patterns ==
    {<<"/">>,
     <<"/", "a">>,
     <<"/", "a", "/">>,
     <<"/", "a", "/", "b">>,
     <<"/", "a", "b">>,
     <<"/", "a", "/", "*", "x">>,
     <<"/", "a", "/", ":", "x">>,
     <<"/", ":", "x">>,
     <<"/", ":", "x", "/">>,
     <<"/", ":", "x", "/", "b">>,
     <<"/", ":", "x", "y">>,
     <<"/", ":", "x", "/", ":", "y">>,
     <<"/", "A">>,
     <<"/", ":">>,
     <<"/", "*">>,
     <<"/", ":", "x", "*", "y">>,
     <<"/", "a", "*", "x">>,
     <<"/", "a", "/", "*", "x", "/", "b">>,
     <<"a">>,
     <<>>}

\* request paths offered to the lookups
Requests ==
    {<<>>,
     <<"/">>,
     <<"/", "a">>,
     <<"/", "a", "/">>,
     <<"/", "a", "/", "b">>,
     <<"/", "a", "/", "b", "/">>,
     <<"/", "a", "b">>,
     <<"/", "a", "b", "/">>,
     <<"/", "A">>,
     <<"/", "A", "/">>,
     <<"/", "A", "B">>,
     <<"/", "A", "/", "B">>,
     <<"/", "b">>,
     <<"/", "b", "/">>,
     <<"/", "b", "/", "b">>,
     <<"/", "/", "b">>,
     <<"/", "/">>}

Idle == [op |-> "idle"]

\* the zero value of Dispatcher.mux; a locked mutex holds the id of the
\* goroutine that locked it
Unlocked == 0

\* running maps the goroutines started so far (numbered in the order of
\* their go statements) to the call each is making; none at construction
NoGoroutines == <<>>

Init ==
    /\ trees = NoTrees
    /\ opts = New
    /\ routes = {}
    /\ calls = 0
    /\ dirty = {}
    /\ last = Idle
    /\ mux = Unlocked
    /\ running = NoGoroutines

\* Dispatcher.Handle(method, uripath, handler); every registration brings
\* its own handler, identified by the ordinal of the call
DoHandle(method, uripath) ==
    /\ last.op = "idle"
    /\ LET handler == calls + 1
           r       == Handle(trees, method, uripath, handler)
       IN  /\ trees' = r.trees
           /\ routes' = IF r.panic = ""
                        THEN routes \cup {[method |-> method, path |-> uripath,
                                           handle |-> handler]}
                        ELSE routes
           /\ dirty' = IF r.panic # "" /\ r.trees # trees
                       THEN dirty \cup {method} ELSE dirty
           /\ last' = [op |-> "Handle", method |-> method, path |-> uripath,
                       handle |-> handler, panic |-> r.panic, before |-> trees,
                       clean |-> method \notin dirty]
    /\ calls' = calls + 1
    /\ UNCHANGED <<opts, mux, running>>

CallHandle(method, uripath) ==
    /\ calls < MaxRoutes
    /\ DoHandle(method, uripath)

\* Dispatcher.Lookup(method, uripath)
CallLookup(method, uripath) ==
    /\ last.op = "idle"
    /\ LET r == Lookup(trees, method, uripath)
       IN  last' = [op |-> "Lookup", method |-> method, path |-> uripath,
                    handle |-> r.handle, p |-> r.p, tsr |-> r.tsr, panic |-> r.panic]
    /\ UNCHANGED <<trees, opts, routes, calls, dirty, mux, running>>

\* root.findCaseInsensitivePath(uripath, fixTrailingSlash) on the tree of a method
CallFindCaseInsensitivePath(method, uripath, fixTrailingSlash) ==
    /\ last.op = "idle"
    /\ method \in DOMAIN trees
    /\ LET r == findCaseInsensitivePath(trees[method], uripath, fixTrailingSlash)
       IN  last' = [op |-> "findCaseInsensitivePath", method |-> method,
                    path |-> uripath, fix |-> fixTrailingSlash,
                    out |-> r.path, found |-> r.found, panic |-> r.panic]
    /\ UNCHANGED <<trees, opts, routes, calls, dirty, mux, running>>

\* Dispatcher.ServeHTTP for a request of the method and path
CallServeHTTP(method, uripath) ==
    /\ last.op = "idle"
    /\ last' = [op |-> "ServeHTTP", method |-> method, path |-> uripath,
                resp |-> ServeHTTP(trees, opts, method, uripath)]
    /\ UNCHANGED <<trees, opts, routes, calls, dirty, mux, running>>

\* the caller takes the result of the call
Return ==
    /\ last.op # "idle"
    /\ last' = Idle
    /\ UNCHANGED <<trees, opts, routes, calls, dirty, mux, running>>

Next ==
    \/ \E method \in RegMethods, uripath \in Patterns : CallHandle(method, uripath)
    \/ \E method \in Methods, uripath \in Requests : CallLookup(method, uripath)
    \/ \E method \in Methods, uripath \in Requests, fix \in BOOLEAN :
          CallFindCaseInsensitivePath(method, uripath, fix)
    \/ \E method \in Methods, uripath \in Requests : CallServeHTTP(method, uripath)
    \/ Return

Spec == Init /\ [][Next]_vars

----------------------------------------------------------------------------
(* The dispatcher serving requests: routes are registered for several      *)
(* methods, the caller sets the exported option fields, and requests of    *)
(* registered and unregistered methods are served.                         *)

\* the methods routes are registered for
ServeRegMethods == {"GET", "CONNECT", "OPTIONS"}

\* the methods of the requests; no route is ever registered for POST
ServeMethods == ServeRegMethods \cup {"POST"}

ServePatterns ==
    {<<"/">>,
     <<"/", "a">>,
     <<"/", "A">>,
     <<"/", "b", "/">>,
     <<"/", ":", "x", "/", "a">>}

ServeRequests ==
    {<<>>,
     <<"/">>,
     <<"/", "a">>,
     <<"/", "a", "/">>,
     <<"/", "b">>,
     <<"/", "b", "/">>,
     <<"/", "A">>,
     <<"/", "A", "/">>,
     <<"/", "B">>,
     <<"/", "B", "/">>,
     <<"/", "x">>,
     <<"/", "/", "a">>,
     <<"/", ".", ".", "/", "a">>,
     <<"/", ".", ".", "/", "/", "A">>}

\* the values of the option fields a caller may set: every combination of
\* the four flags, with the three handler fields all nil or all installed
\* (a reply involves at most one of them)
OptionSets ==
    {o \in [RedirectTrailingSlash : BOOLEAN, RedirectFixedPath : BOOLEAN,
            HandleMethodNotAllowed : BOOLEAN, HandleMethodOPTIONS : BOOLEAN,
            NotFound : BOOLEAN, MethodNotAllowed : BOOLEAN, MethodOptions : BOOLEAN] :
        o.NotFound = o.MethodNotAllowed /\ o.MethodNotAllowed = o.MethodOptions}

\* Dispatcher.Handle in the serving scenario
ServeRegister(method, uripath) ==
    /\ calls < MaxServeRoutes
    /\ DoHandle(method, uripath)

\* the caller assigns the exported option fields of the Dispatcher
SetOptions(o) ==
    /\ last.op = "idle"
    /\ o # opts
    /\ opts' = o
    /\ UNCHANGED <<trees, routes, calls, dirty, last, mux, running>>

NextServe ==
    \/ \E method \in ServeRegMethods, uripath \in ServePatterns :
          ServeRegister(method, uripath)
    \/ \E o \in OptionSets : SetOptions(o)
    \/ \E method \in ServeMethods, uripath \in ServeRequests :
          CallServeHTTP(method, uripath)
    \/ Return

SpecServe == Init /\ [][NextServe]_vars

----------------------------------------------------------------------------
(* Lookups by several goroutines: once the routes are registered, request  *)
(* goroutines look paths up at the same time.  A resolve advances one node *)
(* of the tree per step, so the steps of the lookups interleave.           *)

LookupPatterns ==
    {<<"/", "a">>,
     <<"/", "a", "b">>,
     <<"/", "a", "/", "b">>,
     <<"/", "a", "/", "*", "x">>,
     <<"/", ":", "x">>,
     <<"/", ":", "x", "/", "b">>}

\* request paths of the resolves
LookupRequests ==
    {<<"/", "a", "b">>,
     <<"/", "a", "/">>,
     <<"/", "a", "/", "b">>,
     <<"/", "b", "/", "b">>}

\* request paths of the case-insensitive lookups
FindRequests ==
    {<<"/", "a", "/">>,
     <<"/", "A", "/", "B">>}

\* the id the next go statement gives its goroutine
NextGoroutine == Len(running) + 1

\* Dispatcher.Handle before any lookup goroutine is started
LookupsRegister(method, uripath) ==
    /\ calls < MaxLookupRoutes
    /\ running = NoGoroutines
    /\ DoHandle(method, uripath)

\* go Dispatcher.Lookup(method, uripath): the goroutine reads the root of
\* the method and stands at it, or returns at once when there is none
GoLookup(method, uripath) ==
    /\ last.op = "idle"
    /\ NextGoroutine <= MaxLookups
    /\ running' = Append(running,
          IF method \in DOMAIN trees
          THEN [call |-> "Lookup", method |-> method, path |-> uripath,
                pc |-> "walk", cursor |-> <<>>, uripath |-> uripath,
                p |-> NilParams, cap |-> 0]
          ELSE [call |-> "Lookup", method |-> method, path |-> uripath,
                pc |-> "done", res |-> Res(NoHandle, NilParams, FALSE)])
    /\ UNCHANGED <<trees, opts, routes, calls, dirty, last, mux>>

\* StepLookup counting the hits of the child it descends into, as register
\* does for the routes
StepLookup_countHits(g) ==
    /\ g \in DOMAIN running
    /\ running[g].call = "Lookup"
    /\ running[g].pc = "walk"
    /\ LET r == running[g]
           n == NodeAt(trees[r.method], r.cursor)
           s == resolveStep(n, r.uripath, r.p, r.cap)
       IN  /\ running' = [running EXCEPT ![g] =
                 IF s.done
                 THEN [call |-> "Lookup", method |-> r.method, path |-> r.path,
                       pc |-> "done", res |-> s.res]
                 ELSE [r EXCEPT !.cursor = @ \o s.down, !.uripath = s.uripath,
                                !.p = s.p, !.cap = s.cap]]
           /\ trees' = IF ~s.done /\ r.cursor = <<>> /\ Len(s.down) = 1
                       THEN [trees EXCEPT ![r.method] =
                                incrementChildPriority(n, At(s.down, 0)).n]
                       ELSE trees
    /\ UNCHANGED <<opts, routes, calls, dirty, last, mux>>

\* one iteration of the walk loop of resolve by goroutine g
StepLookup(g) ==
    /\ g \in DOMAIN running
    /\ running[g].call = "Lookup"
    /\ running[g].pc = "walk"
    /\ LET r == running[g]
           n == NodeAt(trees[r.method], r.cursor)
           s == resolveStep(n, r.uripath, r.p, r.cap)
       IN  running' = [running EXCEPT ![g] =
              IF s.done
              THEN [call |-> "Lookup", method |-> r.method, path |-> r.path,
                    pc |-> "done", res |-> s.res]
              ELSE [r EXCEPT !.cursor = @ \o s.down, !.uripath = s.uripath,
                             !.p = s.p, !.cap = s.cap]]
    /\ UNCHANGED <<trees, opts, routes, calls, dirty, last, mux>>

\* go root.findCaseInsensitivePath(uripath, fixTrailingSlash) on the tree
\* of a method
GoFindCaseInsensitivePath(method, uripath, fixTrailingSlash) ==
    /\ last.op = "idle"
    /\ NextGoroutine <= MaxLookups
    /\ method \in DOMAIN trees
    /\ running' = Append(running,
          [call |-> "findCaseInsensitivePath", method |-> method, path |-> uripath,
           fix |-> fixTrailingSlash, pc |-> "call"])
    /\ UNCHANGED <<trees, opts, routes, calls, dirty, last, mux>>

\* the recursive descent of findCaseInsensitivePath by goroutine g
StepFindCaseInsensitivePath(g) ==
    /\ g \in DOMAIN running
    /\ running[g].call = "findCaseInsensitivePath"
    /\ running[g].pc = "call"
    /\ LET r == running[g]
       IN  running' = [running EXCEPT ![g] =
              [call |-> r.call, method |-> r.method, path |-> r.path, fix |-> r.fix,
               pc |-> "done",
               res |-> findCaseInsensitivePath(trees[r.method], r.path, r.fix)]]
    /\ UNCHANGED <<trees, opts, routes, calls, dirty, last, mux>>

NextLookups ==
    \/ \E method \in RegMethods, uripath \in LookupPatterns :
          LookupsRegister(method, uripath)
    \/ Return
    \/ \E method \in RegMethods, uripath \in LookupRequests : GoLookup(method, uripath)
    \/ \E method \in RegMethods, uripath \in FindRequests, fix \in BOOLEAN :
          GoFindCaseInsensitivePath(method, uripath, fix)
    \/ \E g \in 1..MaxLookups : StepLookup(g)
    \/ \E g \in 1..MaxLookups : StepFindCaseInsensitivePath(g)

SpecLookups == Init /\ [][NextLookups]_vars

----------------------------------------------------------------------------
(* Registration by several goroutines: each calls Dispatcher.Handle once.  *)
(* The statements of Handle are the steps; a goroutine at dp.mux.Lock()    *)
(* waits until the mutex is unlocked.                                      *)

HandlePatterns ==
    {<<"/">>,
     <<"/", "a">>,
     <<"/", "a", "b">>,
     <<"/", ":", "x">>,
     <<"/", ":">>,
     <<"a">>}

\* go Dispatcher.Handle(method, uripath, handler), every call with its own
\* handler
GoHandle(method, uripath) ==
    /\ last.op = "idle"
    /\ NextGoroutine <= MaxHandlers
    /\ running' = Append(running,
          [call |-> "Handle", method |-> method, path |-> uripath,
           handle |-> calls + 1, pc |-> "check", panic |-> ""])
    /\ calls' = calls + 1
    /\ UNCHANGED <<trees, opts, routes, dirty, last, mux>>

\* if uripath[0] != '/' { panic(...) }
HandleCheck(g) ==
    /\ g \in DOMAIN running
    /\ running[g].call = "Handle"
    /\ running[g].pc = "check"
    /\ running' = [running EXCEPT ![g] =
          IF Len(@.path) = 0
          THEN [@ EXCEPT !.pc = "done", !.panic = "index out of range"]
          ELSE IF At(@.path, 0) # "/"
          THEN [@ EXCEPT !.pc = "done", !.panic = "path must begin with '/'"]
          ELSE [@ EXCEPT !.pc = "lock"]]
    /\ UNCHANGED <<trees, opts, routes, calls, dirty, last, mux>>

\* HandleLock taking the mutex without waiting for it to be unlocked
HandleLock_noWait(g) ==
    /\ g \in DOMAIN running
    /\ running[g].call = "Handle"
    /\ running[g].pc = "lock"
    /\ mux' = g
    /\ running' = [running EXCEPT ![g].pc = "root"]
    /\ UNCHANGED <<trees, opts, routes, calls, dirty, last>>

\* dp.mux.Lock(); defer dp.mux.Unlock()
HandleLock(g) ==
    /\ g \in DOMAIN running
    /\ running[g].call = "Handle"
    /\ running[g].pc = "lock"
    /\ mux = Unlocked
    /\ mux' = g
    /\ running' = [running EXCEPT ![g].pc = "root"]
    /\ UNCHANGED <<trees, opts, routes, calls, dirty, last>>

\* the map is made when nil and the root of the method when it has none
HandleRoot(g) ==
    /\ g \in DOMAIN running
    /\ running[g].call = "Handle"
    /\ running[g].pc = "root"
    /\ trees' = [m \in DOMAIN trees \cup {running[g].method} |->
                    IF m \in DOMAIN trees THEN trees[m] ELSE NewNode]
    /\ running' = [running EXCEPT ![g].pc = "register"]
    /\ UNCHANGED <<opts, routes, calls, dirty, last, mux>>

\* root.register(uripath, handler); a panic starts the deferred calls
HandleRegister(g) ==
    /\ g \in DOMAIN running
    /\ running[g].call = "Handle"
    /\ running[g].pc = "register"
    /\ LET c == running[g]
           r == register(trees[c.method], c.path, c.handle)
       IN  /\ trees' = [trees EXCEPT ![c.method] = r.n]
           /\ routes' = IF r.panic = ""
                        THEN routes \cup {[method |-> c.method, path |-> c.path,
                                           handle |-> c.handle]}
                        ELSE routes
           /\ dirty' = IF r.panic # "" /\ r.n # trees[c.method]
                       THEN dirty \cup {c.method} ELSE dirty
           /\ running' = [running EXCEPT ![g] = [@ EXCEPT !.pc = "unlock",
                                                           !.panic = r.panic]]
    /\ UNCHANGED <<opts, calls, last, mux>>

\* the deferred dp.mux.Unlock(), run when Handle returns and when it panics
HandleUnlock(g) ==
    /\ g \in DOMAIN running
    /\ running[g].call = "Handle"
    /\ running[g].pc = "unlock"
    /\ mux' = Unlocked
    /\ running' = [running EXCEPT ![g].pc = "done"]
    /\ UNCHANGED <<trees, opts, routes, calls, dirty, last>>

NextHandles ==
    \/ \E method \in Methods, uripath \in HandlePatterns : GoHandle(method, uripath)
    \/ \E g \in 1..MaxHandlers : HandleCheck(g)
    \/ \E g \in 1..MaxHandlers : HandleLock(g)
    \/ \E g \in 1..MaxHandlers : HandleRoot(g)
    \/ \E g \in 1..MaxHandlers : HandleRegister(g)
    \/ \E g \in 1..MaxHandlers : HandleUnlock(g)

SpecHandles == Init /\ [][NextHandles]_vars

----------------------------------------------------------------------------
(* What a pattern matches, stated on the pattern text *)

\* index of the next '/' at or after i, the length when there is none
RECURSIVE segEnd(_, _)
segEnd(s, i) ==
    IF i >= Len(s) \/ At(s, i) = "/" THEN minInt(i, Len(s)) ELSE segEnd(s, i + 1)

\* q is an instance of pattern p from positions i and j on: ':name' stands
\* for a slash-free segment and a final '/*name' for a suffix beginning
\* with '/'.  The segment of a ':name' is non-empty unless emptyOk, which
\* admits the empty segment where more of the path follows.
RECURSIVE MatchFrom(_, _, _, _, _)
MatchFrom(p, q, i, j, emptyOk) ==
    IF i >= Len(p) THEN j >= Len(q)
    ELSE IF At(p, i) = ":"
    THEN LET k == segEnd(q, j)
         IN  /\ k > j \/ (emptyOk /\ k < Len(q))
             /\ MatchFrom(p, q, segEnd(p, i), k, emptyOk)
    ELSE IF At(p, i) = "/" /\ i + 1 < Len(p) /\ At(p, i + 1) = "*"
    THEN j < Len(q) /\ At(q, j) = "/"
    ELSE /\ j < Len(q)
         /\ At(p, i) = At(q, j)
         /\ MatchFrom(p, q, i + 1, j + 1, emptyOk)

Matches(p, q) == MatchFrom(p, q, 0, 0, FALSE)

\* the parameters an instance q of p carries, in pattern order; the value
\* of the catch-all starts skip bytes into its suffix
RECURSIVE ParamsFrom(_, _, _, _, _)
ParamsFrom(p, q, i, j, skip) ==
    IF i >= Len(p) THEN <<>>
    ELSE IF At(p, i) = ":"
    THEN <<Param(Slice(p, i + 1, segEnd(p, i)), Slice(q, j, segEnd(q, j)))>> \o
         ParamsFrom(p, q, segEnd(p, i), segEnd(q, j), skip)
    ELSE IF At(p, i) = "/" /\ i + 1 < Len(p) /\ At(p, i + 1) = "*"
    THEN <<Param(From(p, i + 2), From(q, j + skip))>>
    ELSE ParamsFrom(p, q, i + 1, j + 1, skip)

WildcardFree(p) == countParams(p) = 0

EndsInCatchAll(p) == \E i \in 0..(Len(p) - 1) : At(p, i) = "*"

HasSlashEnd(q) == Len(q) > 0 /\ At(q, Len(q) - 1) = "/"

\* the routes registered for a method
RoutesOf(method) == {r \in routes : r.method = method}

\* some route of the method has q as an instance
Matched(method, q) == \E r \in RoutesOf(method) : Matches(r.path, q)

\* the tree of the method was built by successful inserts only
Clean(method) == method \notin dirty

\* the handlers stored in the subtree of n
RECURSIVE HandlesIn(_)
HandlesIn(n) ==
    (IF n.handle # NoHandle THEN {n.handle} ELSE {}) \cup
    UNION {HandlesIn(n.children[k]) : k \in 1..Len(n.children)}

----------------------------------------------------------------------------
(* Claims *)

\* C1: round trip.  In a tree built by successful inserts, a lookup of any
\* instance q of a registered pattern p returns the handler registered for
\* p with tsr = false, whatever other routes are registered.
C1_RoundTrip ==
    (last.op = "Lookup" /\ Clean(last.method)) =>
        \A r \in RoutesOf(last.method) :
            Matches(r.path, last.path) =>
                /\ last.panic = ""
                /\ last.handle = r.handle
                /\ ~last.tsr

\* C2: the value captured by a catch-all keeps the leading '/': a lookup
\* that returns the handler of '<prefix>/*name' for '<prefix><s>' carries
\* name = s with s beginning with '/', and the values of ':name' parameters
\* are the slash-free segments.
C2_CatchAllKeepsSlash ==
    (last.op = "Lookup" /\ Clean(last.method)) =>
        \A r \in RoutesOf(last.method) :
            (/\ EndsInCatchAll(r.path)
             /\ Matches(r.path, last.path)
             /\ last.handle = r.handle
             /\ ~last.tsr) =>
                last.p = ParamsFrom(r.path, last.path, 0, 0, 0)

\* C3: dispatching '<prefix>/<rest>' to a route '<prefix>/*name' with a
\* static prefix invokes the handler of the route with exactly one
\* parameter, name = <rest>, the remainder after the anchoring '/'.
C3_CatchAllDispatch ==
    (last.op = "ServeHTTP" /\ Clean(last.method)) =>
        \A r \in RoutesOf(last.method) :
            (/\ EndsInCatchAll(r.path)
             /\ countParams(r.path) = 1
             /\ Matches(r.path, last.path)) =>
                /\ last.resp.kind = "handle"
                /\ last.resp.handler = r.handle
                /\ last.resp.params = ParamsFrom(r.path, last.path, 0, 0, 1)

\* q with its trailing '/' removed, or with a '/' appended when it has none
Toggled(q) == IF HasSlashEnd(q) THEN Slice(q, 0, Len(q) - 1) ELSE Append(q, "/")

\* C4: no false positives.  A lookup of a path that no registered pattern
\* matches returns no handler and no params, only the tsr bit may be set;
\* a lookup on a method with no tree returns (nil, nil, false).
C4_NoHandlerNoParams ==
    (last.op = "Lookup" /\ Clean(last.method) /\ ~Matched(last.method, last.path)) =>
        /\ last.handle = NoHandle
        /\ last.p = NilParams

\* C5: tsr = true is returned only for a path that matches no registered
\* pattern; a path that some registered pattern matches is answered by that
\* pattern's handler with tsr = false.
C5_TsrOnlyWhenUnmatched ==
    (last.op = "Lookup" /\ Clean(last.method) /\ last.tsr) =>
        ~Matched(last.method, last.path)

\* C6: TSR symmetry.  A lookup returns tsr = true exactly when the path
\* itself is not registered and the path with its trailing slash toggled
\* is; in particular never when neither slash variant is registered.
C6_TsrSymmetry ==
    (last.op = "Lookup" /\ Clean(last.method)) =>
        (last.tsr <=> (/\ Matched(last.method, Toggled(last.path))
                       /\ ~Matched(last.method, last.path)))

\* C7: for every registered pattern p without wildcards,
\* findCaseInsensitivePath(upper(p), false) returns (p, true), also when
\* another registered pattern differs from p only in letter case.
C7_UpperFindsPattern ==
    (last.op = "findCaseInsensitivePath" /\ Clean(last.method) /\ ~last.fix) =>
        \A r \in RoutesOf(last.method) :
            (WildcardFree(r.path) /\ last.path = ToUpper(r.path)) =>
                (last.found /\ last.out = r.path)

\* C8: findCaseInsensitivePath reports found = true only with a canonical
\* path that a handler is registered for: resolve of the returned path
\* gives a handler with tsr = false.
C8_FoundHasHandler ==
    (last.op = "findCaseInsensitivePath" /\ Clean(last.method) /\ last.found) =>
        /\ resolve(trees[last.method], last.out).handle # NoHandle
        /\ ~resolve(trees[last.method], last.out).tsr

\* the segments of a pattern: the bytes between its slashes
RECURSIVE SegsFrom(_, _)
SegsFrom(p, i) ==
    IF i >= Len(p) THEN <<>>
    ELSE <<Slice(p, i + 1, segEnd(p, i + 1))>> \o SegsFrom(p, segEnd(p, i + 1))

Segs(p) == SegsFrom(p, 0)

IsWildSeg(seg) == Len(seg) > 0 /\ At(seg, 0) \in {":", "*"}

\* two patterns agree on the segments before position k and disagree at k
\* on static versus wildcard, or on the wildcard itself
Conflict(p1, p2) ==
    \E k \in 1..minInt(Len(Segs(p1)), Len(Segs(p2))) :
        /\ \A j \in 1..(k - 1) : Segs(p1)[j] = Segs(p2)[j]
        /\ Segs(p1)[k] # Segs(p2)[k]
        /\ Segs(p1)[k] # <<>>
        /\ Segs(p2)[k] # <<>>
        /\ IsWildSeg(Segs(p1)[k]) \/ IsWildSeg(Segs(p2)[k])

\* the Handle call recorded in last registers a pattern a second time
Duplicate ==
    /\ last.op = "Handle"
    /\ \E r \in RoutesOf(last.method) : r.path = last.path /\ r.handle # last.handle

\* C9: duplicate registration is rejected.  A second Handle of a pattern
\* already registered for the method panics, and the tree holds the same
\* handlers as before: none is replaced and none is added.
C9_DuplicateRejected ==
    Duplicate =>
        /\ last.panic # ""
        /\ HandlesIn(trees[last.method]) = HandlesIn(last.before[last.method])
        /\ last.handle \notin HandlesIn(trees[last.method])

\* C9 witness: a catch-all pattern was registered a second time and the
\* call panicked with 'a handle is already registered'
C9_Witness ==
    /\ Duplicate
    /\ EndsInCatchAll(last.path)
    /\ last.panic = "a handle is already registered for path"

\* C10: a static/wildcard conflict is rejected in either order.  No two
\* patterns registered for one method disagree at a segment position on
\* static versus wildcard or on the wildcard's name, and the Handle call
\* whose pattern conflicts with a registered one panics.
C10_ConflictRejected ==
    /\ \A r1, r2 \in routes :
          r1.method = r2.method => ~Conflict(r1.path, r2.path)
    /\ (last.op = "Handle" /\
        \E r \in RoutesOf(last.method) :
            r.handle # last.handle /\ Conflict(r.path, last.path))
          => last.panic # ""

\* C10 witness: a static segment was registered where a ':name' is, and in
\* another run a ':name' where a static segment is; this is the first
C10_Witness ==
    /\ last.op = "Handle"
    /\ last.panic = "conflicts with existing wildcard"
    /\ \E r \in RoutesOf(last.method) :
          /\ Conflict(r.path, last.path)
          /\ WildcardFree(last.path)

\* C10 second order: the wildcard arrives after the static route
C10_WitnessWildcardSecond ==
    /\ last.op = "Handle"
    /\ last.panic = "wildcard route conflicts with existing children"
    /\ Len(last.path) > 2
    /\ \E r \in RoutesOf(last.method) :
          /\ Conflict(r.path, last.path)
          /\ WildcardFree(r.path)

\* the wildcard starting at byte i of p is malformed: its name is empty, its
\* segment holds a second ':' or '*', or it is a '*' that is not the final
\* segment or does not follow a '/'
BadWildcardAt(p, i) ==
    LET end == segEnd(p, i + 1)
    IN  \/ end = i + 1
        \/ \E k \in (i + 1)..(end - 1) : At(p, k) \in {":", "*"}
        \/ At(p, i) = "*" /\ end < Len(p)
        \/ At(p, i) = "*" /\ (i = 0 \/ At(p, i - 1) # "/")

Malformed(p) ==
    \E i \in 0..(Len(p) - 1) : At(p, i) \in {":", "*"} /\ BadWildcardAt(p, i)

\* C11: malformed wildcard syntax is always rejected.  A Handle call whose
\* pattern has a wildcard with an empty name, a second ':' or '*' in one
\* segment, a catch-all that is not the final segment, or a '*' that does
\* not follow a '/', panics, whatever routes the tree already holds.
C11_MalformedRejected ==
    (last.op = "Handle" /\ last.clean /\ Malformed(last.path)) => last.panic # ""

\* p is a well-formed pattern ending in a catch-all
IsCatchAll(p) == EndsInCatchAll(p) /\ ~Malformed(p)

\* '<prefix>/' of the catch-all pattern '<prefix>/*name'
CatchAllPrefix(p) == Slice(p, 0, IndexByte(p, "*"))

\* the catch-all p1 would shadow p2: p2 is another pattern that is
\* '<prefix>/' itself or lies under it
Shadows(p1, p2) ==
    /\ IsCatchAll(p1)
    /\ p2 # p1
    /\ Len(p2) >= Len(CatchAllPrefix(p1))
    /\ Slice(p2, 0, Len(CatchAllPrefix(p1))) = CatchAllPrefix(p1)

\* everywhere below n, the intermediate node that anchors a catch-all has
\* the catch-all leaf as its only child
RECURSIVE CatchAllOnlyChild(_)
CatchAllOnlyChild(n) ==
    /\ (n.typo = "wildcard" /\ n.wildcard) =>
          /\ Len(n.children) = 1
          /\ n.children[1].typo = "wildcard"
          /\ ~n.children[1].wildcard
          /\ n.children[1].handle # NoHandle
    /\ \A k \in 1..Len(n.children) : CatchAllOnlyChild(n.children[k])

\* C12: a catch-all never coexists with routes it would shadow.  No method
\* holds '<prefix>/*name' together with '<prefix>/' or a route under it, the
\* Handle call that would add the second of the two panics in either
\* order, and in every tree a catch-all leaf is the only child of its
\* anchoring node.
C12_CatchAllAlone ==
    /\ \A r1, r2 \in routes :
          (r1.method = r2.method /\ Clean(r1.method)) => ~Shadows(r1.path, r2.path)
    /\ (last.op = "Handle" /\ last.clean /\
        \E r \in RoutesOf(last.method) :
            /\ r.handle # last.handle
            /\ Shadows(r.path, last.path) \/ Shadows(last.path, r.path))
          => last.panic # ""
    /\ \A m \in DOMAIN trees : Clean(m) => CatchAllOnlyChild(trees[m])

\* C13: Handle with a path that does not begin with '/' panics before any
\* state change: the trees map is not created or extended and no node is
\* added for the method.
C13_NoSlashNoChange ==
    (last.op = "Handle" /\ (Len(last.path) = 0 \/ At(last.path, 0) # "/")) =>
        /\ last.panic # ""
        /\ Len(last.path) > 0 => last.panic = "path must begin with '/'"
        /\ trees = last.before
        /\ last.clean => last.method \notin dirty

\* C13 witness: the first Handle of a dispatcher was given a path without
\* the leading '/', it panicked and the trees map is still nil
C13_Witness ==
    /\ last.op = "Handle"
    /\ Len(last.path) > 0
    /\ At(last.path, 0) # "/"
    /\ last.panic = "path must begin with '/'"
    /\ last.before = NoTrees
    /\ trees = NoTrees

\* C14: lookup never fails.  In a tree built by successful inserts, resolve
\* returns for every request path, the empty one included, without a
\* panic: the params appended never exceed the capacity taken from the
\* first wildcard node crossed, and no index or slice is out of range.
C14_LookupNeverPanics ==
    (last.op = "Lookup" /\ Clean(last.method)) => last.panic = ""

\* C14 witness: a lookup crossed two wildcard nodes of a tree in which the
\* two-parameter route was registered after a one-parameter route, and
\* returned both params
C14_Witness ==
    /\ last.op = "Lookup"
    /\ Clean(last.method)
    /\ last.panic = ""
    /\ Len(last.p) = 2
    /\ \E r1, r2 \in RoutesOf(last.method) :
          /\ countParams(r1.path) = 1
          /\ countParams(r2.path) = 2
          /\ r1.handle < r2.handle
          /\ last.handle = r2.handle

\* C15: captured parameters are in pattern order.  A lookup that matches a
\* pattern with the wildcards w1..wk returns k params, the i-th with the
\* name of wi as key and the part of the request path matched by wi as
\* value: the slash-free segment of a ':name', and for a '*name' the
\* remainder of the path after the anchoring '/'.
C15_ParamsInPatternOrder ==
    (last.op = "Lookup" /\ Clean(last.method)) =>
        \A r \in RoutesOf(last.method) :
            (Matches(r.path, last.path) /\ last.handle = r.handle /\ ~last.tsr) =>
                /\ Len(last.p) = countParams(r.path)
                /\ last.p = ParamsFrom(r.path, last.path, 0, 0, 1)

\* C15 witness: a lookup matched the pattern with two ':name' segments and
\* returned two params with different keys and different values
C15_Witness ==
    /\ last.op = "Lookup"
    /\ Clean(last.method)
    /\ ~last.tsr
    /\ \E r \in RoutesOf(last.method) :
          /\ countParams(r.path) = 2
          /\ Matches(r.path, last.path)
          /\ last.handle = r.handle
    /\ Len(last.p) = 2
    /\ last.p[1].Key # last.p[2].Key
    /\ last.p[1].Value # last.p[2].Value

\* the wildcard bytes of a pattern, in pattern order
RECURSIVE WildcardsFrom(_, _)
WildcardsFrom(p, i) ==
    IF i >= Len(p) THEN <<>>
    ELSE (IF At(p, i) \in {":", "*"} THEN <<At(p, i)>> ELSE <<>>) \o
         WildcardsFrom(p, i + 1)

WildcardsOf(p) == WildcardsFrom(p, 0)

\* the pattern ends in a ':name' segment that starts at byte i
EndsInParamAt(p, i) ==
    /\ i > 0
    /\ i < Len(p)
    /\ At(p, i) = ":"
    /\ At(p, i - 1) = "/"
    /\ segEnd(p, i) = Len(p)

\* q is the pattern cut off in front of its final ':name' ('/user/' for
\* '/user/:user')
TooShort(p, q) == \E i \in 1..(Len(p) - 1) : EndsInParamAt(p, i) /\ q = Slice(p, 0, i)

\* q is an instance of the pattern followed by '/' and a further segment
\* ('/user/gordon/profile' for '/user/:user')
TooLong(p, q) ==
    \E k \in 1..(Len(q) - 2) :
        /\ At(q, k) = "/"
        /\ Matches(p, Slice(q, 0, k))
        /\ \E i \in 1..(Len(p) - 1) : EndsInParamAt(p, i)

\* C16: a named parameter matches exactly one non-empty path segment.  For
\* a registered pattern ending in ':name', the pattern cut off in front of
\* the parameter and an instance with a further segment appended return no
\* handler and tsr = false unless another route matches them or their
\* slash-toggled form; and no lookup returns a handler together with a
\* ':name' parameter whose value is the empty string.
C16_ParamOneNonEmptySegment ==
    (last.op = "Lookup" /\ Clean(last.method)) =>
        /\ \A r \in RoutesOf(last.method) :
              (/\ TooShort(r.path, last.path) \/ TooLong(r.path, last.path)
               /\ ~Matched(last.method, last.path)
               /\ ~Matched(last.method, Toggled(last.path))) =>
                  (last.handle = NoHandle /\ ~last.tsr)
        /\ \A r \in RoutesOf(last.method) :
              (last.handle = r.handle) =>
                  \A i \in 1..Len(last.p) :
                      (i <= Len(WildcardsOf(r.path)) /\ WildcardsOf(r.path)[i] = ":") =>
                          last.p[i].Value # <<>>

\* the answer of resolve that the ServeHTTP call recorded in last acted on
Resolved == resolve(trees[last.method], last.path)

\* C17: trailing-slash redirect.  When resolve returns a handler with
\* tsr = true and RedirectTrailingSlash is enabled, ServeHTTP does not call
\* the handler and redirects, 301 for GET and 307 for every other method,
\* to the path with its trailing '/' removed (if the path is longer than 1
\* and ends in '/') or added otherwise; with RedirectTrailingSlash
\* disabled the returned handler is invoked directly.
C17_TrailingSlashRedirect ==
    (/\ last.op = "ServeHTTP"
     /\ last.method \in DOMAIN trees
     /\ Resolved.handle # NoHandle
     /\ Resolved.tsr) =>
        IF opts.RedirectTrailingSlash
        THEN /\ last.resp.kind = "redirect"
             /\ last.resp.handler = NoHandle
             /\ last.resp.code = (IF last.method = "GET" THEN 301 ELSE 307)
             /\ last.resp.location =
                   (IF Len(last.path) > 1 /\ HasSlashEnd(last.path)
                    THEN Slice(last.path, 0, Len(last.path) - 1)
                    ELSE last.path \o <<"/">>)
        ELSE /\ last.resp.kind = "handle"
             /\ last.resp.handler = Resolved.handle
             /\ last.resp.params = Resolved.p

\* C17 witness: a request of another method than GET for a registered path
\* plus '/' was redirected with 307 to the registered path
C17_Witness ==
    /\ last.op = "ServeHTTP"
    /\ last.method \in DOMAIN trees
    /\ last.method # "GET"
    /\ Resolved.handle # NoHandle
    /\ Resolved.tsr
    /\ opts.RedirectTrailingSlash
    /\ last.resp.kind = "redirect"
    /\ last.resp.code = 307
    /\ last.resp.location \o <<"/">> = last.path

\* C17 second case: RedirectTrailingSlash is disabled and the handler of
\* the slash-toggled path was invoked
C17_WitnessDisabled ==
    /\ last.op = "ServeHTTP"
    /\ last.method \in DOMAIN trees
    /\ Resolved.tsr
    /\ ~opts.RedirectTrailingSlash
    /\ last.resp.kind = "handle"
    /\ last.resp.handler # NoHandle

\* the answer of the case-insensitive lookup ServeHTTP makes for the request
\* recorded in last
Fixed ==
    findCaseInsensitivePath(trees[last.method], Normalize(last.path),
                            opts.RedirectTrailingSlash)

\* some route of the method differs from p in letter case only
HasCaseTwin(method, p) ==
    \E r \in RoutesOf(method) : r.path # p /\ ToLower(r.path) = ToLower(p)

\* the request of last for path q is redirected to the registered path p
RedirectsTo(q, p) ==
    (/\ last.path = q
     /\ \E r \in RoutesOf(last.method) : r.path = p
     /\ ~HasCaseTwin(last.method, p)) =>
        /\ last.resp.kind = "redirect"
        /\ last.resp.location = p

\* C18: fixed-path redirect.  When resolve returns no handler,
\* RedirectFixedPath is enabled, the method is not CONNECT and the path is
\* not '/', ServeHTTP redirects (301 for GET, 307 otherwise) to the path
\* found by the case-insensitive lookup of the normalized path, made with
\* trailing-slash fixing iff RedirectTrailingSlash; with '/a' and '/b/'
\* registered and both flags set, '/A' and '/A/' go to '/a', '/B' and '/B/'
\* go to '/b/'; '/../a' and '/..//A' go to '/a'; a path without a case-insensitive match falls through to
\* the 405, OPTIONS and 404 replies.
C18_FixedPathRedirect ==
    (/\ last.op = "ServeHTTP"
     /\ last.method \in DOMAIN trees
     /\ Clean(last.method)
     /\ Resolved.handle = NoHandle
     /\ opts.RedirectFixedPath
     /\ last.method # "CONNECT"
     /\ last.path # <<"/">>) =>
        /\ Fixed.found =>
              /\ last.resp.kind = "redirect"
              /\ last.resp.code = (IF last.method = "GET" THEN 301 ELSE 307)
              /\ last.resp.location = Fixed.path
        /\ ~Fixed.found =>
              /\ last.resp.kind \in {"notallowed", "options", "notfound"}
              /\ (\A m \in DOMAIN trees \ {last.method} :
                     resolve(trees[m], last.path).handle = NoHandle)
                   => (last.resp.kind = "notfound" /\
                       (~opts.NotFound => last.resp.code = 404))
        /\ opts.RedirectTrailingSlash =>
              /\ RedirectsTo(<<"/", "A">>, <<"/", "a">>)
              /\ RedirectsTo(<<"/", "A", "/">>, <<"/", "a">>)
              /\ RedirectsTo(<<"/", "B">>, <<"/", "b", "/">>)
              /\ RedirectsTo(<<"/", "B", "/">>, <<"/", "b", "/">>)
        /\ RedirectsTo(<<"/", ".", ".", "/", "a">>, <<"/", "a">>)
        /\ RedirectsTo(<<"/", ".", ".", "/", "/", "A">>, <<"/", "a">>)

\* C18 witness: with '/' and '/b/' registered for GET, the request GET '/B'
\* was redirected with 301 to '/b/': the letter case and the trailing
\* slash were fixed in one step
C18_Witness ==
    /\ last.op = "ServeHTTP"
    /\ last.method = "GET"
    /\ last.path = <<"/", "B">>
    /\ {r.path : r \in RoutesOf("GET")} = {<<"/">>, <<"/", "b", "/">>}
    /\ opts.RedirectFixedPath
    /\ opts.RedirectTrailingSlash
    /\ last.resp.kind = "redirect"
    /\ last.resp.code = 301
    /\ last.resp.location = <<"/", "b", "/">>

\* C18 normalized case: with '/a' registered for GET, the request GET
\* '/..//A' was redirected with 301 to '/a': the '..' element and the
\* repeated slash were removed before the case-insensitive lookup
C18_WitnessNormalized ==
    /\ last.op = "ServeHTTP"
    /\ last.method = "GET"
    /\ last.path = <<"/", ".", ".", "/", "/", "A">>
    /\ {r.path : r \in RoutesOf("GET")} = {<<"/", "a">>}
    /\ opts.RedirectFixedPath
    /\ last.resp.kind = "redirect"
    /\ last.resp.code = 301
    /\ last.resp.location = <<"/", "a">>

\* C18 second case: no case-insensitive match, the request falls through
\* to the 404 reply
C18_WitnessNotFound ==
    /\ last.op = "ServeHTTP"
    /\ last.method \in DOMAIN trees
    /\ opts.RedirectFixedPath
    /\ last.path = <<"/", "x">>
    /\ ~Fixed.found
    /\ last.resp.kind = "notfound"
    /\ last.resp.code = 404

\* the request path with its trailing '/' removed, or with a '/' appended
\* when it has none: the other path a trailing-slash redirect connects
SlashTwin(q) == IF HasSlashEnd(q) THEN Slice(q, 0, Len(q) - 1) ELSE q \o <<"/">>

\* the other methods, OPTIONS left out, that have the path registered
OtherMethodsWithRoute ==
    {m \in ServeMethods \ {last.method, "OPTIONS"} : Matched(m, last.path)}

\* the other methods, OPTIONS left out, that have the path or its
\* slash-toggled form registered
OtherMethodsServing ==
    {m \in ServeMethods \ {last.method, "OPTIONS"} :
        Matched(m, last.path) \/ Matched(m, SlashTwin(last.path))}

\* the other methods, OPTIONS left out, whose tree resolves the path to a
\* handler, with or without the tsr bit
OtherMethodsResolving ==
    {m \in DOMAIN trees \ {last.method, "OPTIONS"} :
        resolve(trees[m], last.path).handle # NoHandle}

\* ServeHTTP redirects the request recorded in last: its method has a tree
\* and the tree gives a trailing-slash or a fixed-path redirect
RedirectApplies ==
    /\ last.method \in DOMAIN trees
    /\ \/ Resolved.handle # NoHandle /\ Resolved.tsr /\ opts.RedirectTrailingSlash
       \/ /\ Resolved.handle = NoHandle
          /\ opts.RedirectFixedPath
          /\ last.method # "CONNECT"
          /\ last.path # <<"/">>
          /\ Fixed.found

\* the tree of the method of the request gives a handler for the path
HandlerApplies == last.method \in DOMAIN trees /\ Resolved.handle # NoHandle

C19_WitnessResolved ==
    /\ last.op = "ServeHTTP"
    /\ last.method = "POST"
    /\ last.path = <<"/", "/", "a">>
    /\ dirty = {}
    /\ opts.HandleMethodNotAllowed
    /\ OtherMethodsServing = {}
    /\ OtherMethodsResolving = {"GET"}
    /\ last.resp.kind = "notallowed"
    /\ last.resp.allow = {"GET", "OPTIONS"}

\* ServeHTTP answers the request recorded in last with the 405 or the
\* OPTIONS reply: the flag for the kind of request is set and another
\* method resolves the path to a handler
ReplyApplies ==
    /\ OtherMethodsResolving # {}
    /\ IF last.method = "OPTIONS"
       THEN opts.HandleMethodOPTIONS
       ELSE opts.HandleMethodNotAllowed

\* C20: not-found fallthrough.  A request is delegated to the NotFound
\* handler, http.NotFound with status 404 when none is set, exactly when
\* no handler, no redirect, no 405 and no OPTIONS reply applies; GET '/'
\* on a dispatcher holding only GET '/a' yields 404 and not a redirect.
C20_NotFoundFallthrough ==
    (last.op = "ServeHTTP" /\ dirty = {}) =>
        /\ last.resp.kind = "notfound" <=>
              ~(HandlerApplies \/ RedirectApplies \/ ReplyApplies)
        /\ last.resp.kind = "notfound" =>
              /\ last.resp.handler = NoHandle
              /\ last.resp.custom = opts.NotFound
              /\ ~opts.NotFound => last.resp.code = 404
        /\ (/\ last.method = "GET"
            /\ last.path = <<"/">>
            /\ routes # {}
            /\ \A r \in routes : r.method = "GET" /\ r.path = <<"/", "a">>)
              => last.resp.kind = "notfound"

\* C20 witness: GET '/' on a dispatcher holding only GET '/a', with the
\* redirect flags set, was answered 404 by http.NotFound
C20_Witness ==
    /\ last.op = "ServeHTTP"
    /\ last.method = "GET"
    /\ last.path = <<"/">>
    /\ {r.path : r \in routes} = {<<"/", "a">>}
    /\ opts.RedirectTrailingSlash
    /\ opts.RedirectFixedPath
    /\ ~opts.NotFound
    /\ last.resp.kind = "notfound"
    /\ last.resp.code = 404

\* C20 second case: the request that cannot be routed went to the handler
\* installed as NotFound while another method serves the path and
\* HandleMethodNotAllowed is cleared
C20_WitnessCustom ==
    /\ last.op = "ServeHTTP"
    /\ last.method # "OPTIONS"
    /\ OtherMethodsResolving # {}
    /\ ~opts.HandleMethodNotAllowed
    /\ opts.NotFound
    /\ last.resp.kind = "notfound"
    /\ last.resp.custom

----------------------------------------------------------------------------
(* Concurrent lookups *)

\* the result of the call of goroutine g when it runs alone on the trees
Alone(g) ==
    LET r == running[g]
    IN  IF r.call = "Lookup"
        THEN Lookup(trees, r.method, r.path)
        ELSE findCaseInsensitivePath(trees[r.method], r.path, r.fix)

\* every finished lookup returned what it returns when run alone
LookupsAsAlone ==
    \A g \in DOMAIN running : running[g].pc = "done" => running[g].res = Alone(g)

\* C21: lookups are read-only.  No step of a resolve or of a
\* findCaseInsensitivePath changes any field of any node of any tree, and
\* lookups whose steps interleave after the last insert return what each
\* returns when it runs alone.
C21_LookupsReadOnly ==
    /\ []LookupsAsAlone
    /\ [][running' # running => trees' = trees]_vars

\* C21 witness: two lookups were in flight at once in a tree built by
\* successful inserts; the second has returned a handler with params while
\* the first stands at a node below the root
C21_Witness ==
    /\ Len(running) = 2
    /\ dirty = {}
    /\ running[1].call = "Lookup"
    /\ running[1].pc = "walk"
    /\ running[1].cursor # <<>>
    /\ running[2].call = "Lookup"
    /\ running[2].pc = "done"
    /\ running[2].res.handle # NoHandle
    /\ running[2].res.p # NilParams

\* C21 witness: a findCaseInsensitivePath has returned a corrected path
\* while a resolve was on its way
C21_WitnessFind ==
    /\ Len(running) = 2
    /\ running[1].call = "Lookup"
    /\ running[1].pc = "walk"
    /\ running[1].cursor # <<>>
    /\ running[2].call = "findCaseInsensitivePath"
    /\ running[2].pc = "done"
    /\ running[2].res.found
    /\ running[2].res.path # running[2].path

----------------------------------------------------------------------------
(* Concurrent registrations *)

\* the goroutines between dp.mux.Lock() and the deferred dp.mux.Unlock()
Registering ==
    {g \in DOMAIN running : running[g].pc \in {"root", "register", "unlock"}}

\* the goroutines whose Handle has ended, by return or by panic
Ended == {g \in DOMAIN running : running[g].pc = "done"}

\* the trees the calls of the goroutines of S leave when made one after
\* another on tr, in every order
RECURSIVE SerialTrees(_, _)
SerialTrees(tr, S) ==
    IF S = {} THEN {tr}
    ELSE UNION {SerialTrees(Handle(tr, running[g].method, running[g].path,
                                   running[g].handle).trees, S \ {g}) : g \in S}

\* at most one goroutine is between Lock and Unlock, and it holds the mutex
OneRegistration ==
    /\ Cardinality(Registering) <= 1
    /\ \A g \in Registering : mux = g

\* whenever the mutex is unlocked the trees are those of the ended calls
\* made in some sequential order
Serialized == mux = Unlocked => trees \in SerialTrees(NoTrees, Ended)

\* a call that has ended, also by a panic, does not hold the mutex
Released == \A g \in Ended : mux # g

\* C22: registrations are serialized.  Concurrent calls of Handle hold the
\* mutex from before the tree of the method is created until register has
\* ended, so at most one registration mutates the trees at any time, the
\* trees are those some sequential order of the same calls produces, and a
\* registration that panics releases the mutex.
C22_RegistrationsSerialized == OneRegistration /\ Serialized /\ Released

\* C22 witness: the first goroutine panicked inside register and has
\* ended, and the second, which waited, now holds the mutex and registers
\* on the tree the first left
C22_Witness ==
    /\ Len(running) = 2
    /\ running[1].pc = "done"
    /\ running[1].panic # ""
    /\ running[1].method \in dirty
    /\ running[2].pc = "register"
    /\ running[2].method = running[1].method
    /\ mux = 2

\* C22 witness: both calls have returned and two orders of the same calls
\* give different trees
C22_WitnessOrders ==
    /\ Len(running) = 2
    /\ Ended = {1, 2}
    /\ running[1].panic = ""
    /\ running[2].panic = ""
    /\ Cardinality(SerialTrees(NoTrees, Ended)) = 2

----------------------------------------------------------------------------
(* Invariants of the tree *)

\* the nodes of the subtree of n
RECURSIVE NodesIn(_)
NodesIn(n) == {n} \cup UNION {NodesIn(n.children[k]) : k \in 1..Len(n.children)}

\* the nodes of the trees built by successful inserts only
CleanNodes == UNION {NodesIn(trees[m]) : m \in {x \in DOMAIN trees : Clean(x)}}

\* the children of n are sorted non-increasing by priority
SortedByPriority(n) ==
    \A k \in 1..(Len(n.children) - 1) :
        n.children[k].priority >= n.children[k + 1].priority

\* the child at position k of n is indexed by the first byte of its path
IndexedAt(n, k) ==
    /\ k <= Len(n.indices)
    /\ Len(n.children[k].path) > 0
    /\ n.indices[k] = n.children[k].path[1]

\* every static child of n is indexed by the first byte of its path
StaticIndexed(n) ==
    \A k \in 1..Len(n.children) : n.children[k].typo = "static" => IndexedAt(n, k)

\* s without its element at position k (0-based)
Without(s, k) == Slice(s, 0, k) \o From(s, k + 1)

\* incrementChildPriority(n, pos) bumps the child by one, moves it left
\* only past siblings of strictly lower priority, stops at a sibling of
\* equal or higher priority, keeps the order of the others, and moves the
\* index byte with the child
MovesLeftOnly(n, pos) ==
    LET r      == incrementChildPriority(n, pos)
        bumped == [At(n.children, pos) EXCEPT !.priority = @ + 1]
    IN  /\ r.newPos <= pos
        /\ At(r.n.children, r.newPos) = bumped
        /\ At(r.n.indices, r.newPos) = At(n.indices, pos)
        /\ \A k \in r.newPos..(pos - 1) : At(n.children, k).priority < bumped.priority
        /\ r.newPos > 0 => At(n.children, r.newPos - 1).priority >= bumped.priority
        /\ Without(r.n.children, r.newPos) = Without(n.children, pos)
        /\ Without(r.n.indices, r.newPos) = Without(n.indices, pos)

\* C23 as stated: priority/indices invariant.  After successful inserts, at
\* every node the children are sorted non-increasing by priority and every
\* static child at position i has indices[i] equal to the first byte of its
\* path; incrementChildPriority moves the bumped child left only past
\* siblings of strictly lower priority and permutes indices identically.
C23_PriorityIndicesAsStated ==
    \A n \in CleanNodes :
        /\ SortedByPriority(n)
        /\ StaticIndexed(n)
        /\ \A pos \in 0..(Len(n.indices) - 1) : MovesLeftOnly(n, pos)

\* the first byte of the text the subtree of n goes on with: the first byte
\* of its path or, for the empty-path nodes a catch-all puts in front of
\* its leaf, that of its first child
RECURSIVE LeadByte(_)
LeadByte(n) ==
    IF Len(n.path) > 0 THEN n.path[1]
    ELSE IF Len(n.children) > 0 THEN LeadByte(n.children[1])
    ELSE NUL

\* indices is parallel to children
Indexed(n) ==
    /\ Len(n.indices) = Len(n.children)
    /\ \A k \in 1..Len(n.children) : n.indices[k] = LeadByte(n.children[k])

\* the indexed children of n are indexed by their lead bytes
IndexedByLead(n) ==
    /\ Len(n.indices) <= Len(n.children)
    /\ \A k \in 1..Len(n.indices) : n.indices[k] = LeadByte(n.children[k])

\* the node finds its only child without indices: the child of a node
\* with the wildcard flag and the static child of a param node
SingleChild(n) == n.wildcard \/ n.typo = "param"

\* C23 amended: after successful inserts, at every node the children are
\* sorted non-increasing by priority and indices[i] is the first byte of
\* children[i].path, or the '/' of the catch-all below when that path is
\* empty, for every i below the length of indices; indices is as long as
\* children at every node that is neither a param node nor has the
\* wildcard flag, and these have at most one child, which a node with the
\* wildcard flag never indexes and a param node may leave unindexed;
\* incrementChildPriority moves the bumped child left only past siblings
\* of strictly lower priority and permutes indices identically.
C23_PriorityIndices ==
    \A n \in CleanNodes :
        /\ SortedByPriority(n)
        /\ IndexedByLead(n)
        /\ ~SingleChild(n) => Len(n.indices) = Len(n.children)
        /\ SingleChild(n) => Len(n.children) <= 1
        /\ n.wildcard => n.indices = <<>>
        /\ \A pos \in 0..(Len(n.indices) - 1) : MovesLeftOnly(n, pos)

\* C23 witness: a successful insert has moved a child of the root to the
\* left of its sibling, and indices with it
C23_Witness ==
    /\ last.op = "Handle"
    /\ last.panic = ""
    /\ dirty = {}
    /\ last.method \in DOMAIN last.before
    /\ LET old == last.before[last.method]
           new == trees[last.method]
       IN  /\ Len(old.children) = 2
           /\ Len(new.children) = 2
           /\ old.indices = <<new.indices[2], new.indices[1]>>
           /\ new.children[1].priority > new.children[2].priority

\* C23 witness: a param node with its unindexed static child
C23_WitnessParam ==
    \E n \in CleanNodes :
        /\ n.typo = "param"
        /\ n.indices = <<>>
        /\ Len(n.children) = 1
        /\ n.children[1].typo = "static"

\* the priority of n is the number of handlers stored in its subtree
CountsHandlers(n) == n.priority = Cardinality(HandlesIn(n))

\* C24: priority equals handler count.  After successful inserts the
\* priority of every node is the number of handlers stored in the subtree
\* rooted at it, itself included; where the insert split a node, the new
\* child has the count from before the insert and the parent the count
\* with the inserted route.
C24_PriorityIsHandlerCount == \A n \in CleanNodes : CountsHandlers(n)

\* C24 witness: the last insert split the root; the child split off has
\* the count the root had before and the root one more
C24_Witness ==
    /\ last.op = "Handle"
    /\ last.panic = ""
    /\ dirty = {}
    /\ last.method \in DOMAIN last.before
    /\ LET old == last.before[last.method]
           new == trees[last.method]
       IN  /\ Len(new.path) < Len(old.path)
           /\ old.priority = 2
           /\ new.priority = 3
           /\ \E k \in 1..Len(new.children) :
                 /\ new.children[k].path = From(old.path, Len(new.path))
                 /\ new.children[k].priority = 2

\* the larger of two numbers
Larger(a, b) == IF a > b THEN a ELSE b

\* the largest number of wildcards on a path from the first k children of
\* n down to a leaf
RECURSIVE WildcardsBelow(_, _)
\* the largest number of wildcards on a path from n down to a leaf
RECURSIVE WildcardsDown(_)
WildcardsBelow(n, k) ==
    IF k = 0 THEN 0
    ELSE Larger(WildcardsDown(n.children[k]), WildcardsBelow(n, k - 1))

WildcardsDown(n) == countParams(n.path) + WildcardsBelow(n, Len(n.children))

\* C25: nparams invariant.  After successful inserts nparams of every node
\* is at least the number of wildcards on the path of any registered
\* pattern from that node down to a leaf, and nparams of the root at least
\* the number of wildcards of every registered pattern, also where nodes
\* were split and where an insert went through an existing wildcard child.
C25_NparamsCoversWildcards ==
    /\ \A n \in CleanNodes : n.nparams >= WildcardsDown(n)
    /\ \A r \in routes :
          Clean(r.method) => trees[r.method].nparams >= countParams(r.path)

\* n is of kind param or catch-all
WildKind(n) == n.typo \in {"param", "wildcard"}

\* n is the first of the two nodes of a catch-all
CatchAllFirst(n) == n.typo = "wildcard" /\ n.wildcard

\* n binds a value: a param node or the second node of a catch-all
Binds(n) == n.typo = "param" \/ (n.typo = "wildcard" /\ ~n.wildcard)

\* C26 as stated: wildcard-child flag invariant.  After successful inserts
\* the wildcard flag of a node is true if and only if the node has a child
\* at position 0 of kind param or catch-all; children of these kinds are
\* not represented in indices, and the intermediate catch-all node has
\* path '/'.
C26_WildcardFlagAsStated ==
    \A n \in CleanNodes :
        /\ n.wildcard <=> (Len(n.children) > 0 /\ WildKind(n.children[1]))
        /\ \A k \in 1..Len(n.children) : WildKind(n.children[k]) => k > Len(n.indices)
        /\ CatchAllFirst(n) => n.path = <<"/">>

\* C26 amended: after successful inserts the wildcard flag of a node is
\* true if and only if the node has a child at position 0 that binds a
\* value, a param node or the leaf of a catch-all; such a child is the
\* only child and is not represented in indices.  The intermediate node of
\* a catch-all has the empty path and the flag, its only child is the leaf
\* '/*name' with the handler, and its parent, whose flag it does not set,
\* indexes it by '/'.
C26_WildcardFlag ==
    \A n \in CleanNodes :
        /\ n.wildcard <=> (Len(n.children) > 0 /\ Binds(n.children[1]))
        /\ \A k \in 1..Len(n.children) :
              Binds(n.children[k]) => (k = 1 /\ Len(n.children) = 1 /\ n.indices = <<>>)
        /\ \A k \in 1..Len(n.children) :
              CatchAllFirst(n.children[k]) =>
                  /\ ~n.wildcard
                  /\ k <= Len(n.indices)
                  /\ n.indices[k] = "/"
        /\ CatchAllFirst(n) =>
              /\ n.path = <<>>
              /\ n.handle = NoHandle
              /\ Len(n.children) = 1
              /\ n.children[1].typo = "wildcard"
              /\ Slice(n.children[1].path, 0, 2) = <<"/", "*">>
              /\ n.children[1].handle # NoHandle

\* C26 witness: the node above a catch-all has the intermediate node at
\* position 0, indexed by '/', next to a static child, and no flag
C26_Witness ==
    /\ dirty = {}
    /\ \E n \in CleanNodes :
          /\ Len(n.children) = 2
          /\ ~n.wildcard
          /\ CatchAllFirst(n.children[1])
          /\ n.children[1].path = <<>>
          /\ n.indices[1] = "/"
          /\ n.children[2].typo = "static"

\* C26 witness: a node with the flag and its param child
C26_WitnessParam ==
    /\ dirty = {}
    /\ \E n \in CleanNodes :
          /\ n.wildcard
          /\ n.indices = <<>>
          /\ n.children[1].typo = "param"
          /\ n.children[1].handle # NoHandle

----------------------------------------------------------------------------
(* Relations between lookups *)

\* C27: the handler returned together with tsr = true is the handler of
\* the slash-toggled path.  Whenever resolve(q) returns (h, _, true) with
\* h non-nil, resolve of q with its trailing '/' removed, or with a '/'
\* appended when it has none, returns h with tsr = false.
C27_TsrHandlerOfToggled ==
    (/\ last.op = "Lookup"
     /\ Clean(last.method)
     /\ last.tsr
     /\ last.handle # NoHandle) =>
        LET t == resolve(trees[last.method], Toggled(last.path))
        IN  /\ t.panic = ""
            /\ t.handle = last.handle
            /\ ~t.tsr

\* the last call was a successful insert into a tree built by successful
\* inserts
Inserted ==
    /\ last.op = "Handle"
    /\ last.panic = ""
    /\ last.clean
    /\ last.method \in DOMAIN last.before

\* C28: registered routes are stable.  If resolve(q) returns (h, params,
\* false) with h non-nil, then after a further successful insert into the
\* tree, and so after any sequence of them, resolve(q) still returns
\* (h, params, false).
C28_RoutesStable ==
    Inserted =>
        \A q \in Requests :
            LET b == resolve(last.before[last.method], q)
                a == resolve(trees[last.method], q)
            IN  (b.handle # NoHandle /\ ~b.tsr) => a = b

\* the patterns of the calls made on the method of the last Handle, each
\* with its handler: the registered routes and the route of the last call
Inserts == RoutesOf(last.method) \cup
           {[method |-> last.method, path |-> last.path, handle |-> last.handle]}

\* the orders in which the routes of S can be inserted
Orders(S) ==
    {o \in [1..Cardinality(S) -> S] : \A i, j \in 1..Cardinality(S) : o[i] = o[j] => i = j}

\* the trees and the panic after the routes of order o from position k on
\* are inserted into tr, stopping at the first insert that panics
RECURSIVE InsertAll(_, _, _)
InsertAll(tr, o, k) ==
    IF k > Len(o) THEN [trees |-> tr, panic |-> ""]
    ELSE LET r == Handle(tr, o[k].method, o[k].path, o[k].handle)
         IN  IF r.panic # "" THEN r ELSE InsertAll(r.trees, o, k + 1)

\* C29: insertion-order independence.  For a set of patterns with distinct
\* handlers, inserted into an empty tree in any two orders, either both
\* orders panic at some insert or both succeed, and then resolve returns
\* the same (handler, params, tsr) in both trees for every request path.
\* The order of the calls made is compared with every order of the same
\* routes.
C29_OrderIndependent ==
    (/\ last.op = "Handle"
     /\ last.clean
     /\ \A r \in RoutesOf(last.method) : r.path = last.path => r.handle = last.handle) =>
        \A o \in Orders(Inserts) :
            LET other == InsertAll(NoTrees, o, 1)
            IN  /\ (other.panic = "") <=> (last.panic = "")
                /\ last.panic = "" =>
                      \A q \in Requests :
                          resolve(other.trees[last.method], q) =
                              resolve(trees[last.method], q)

\* the last call was a Handle whose register panicked, on a tree that no
\* earlier rejected insert had touched
Rejected ==
    /\ last.op = "Handle"
    /\ last.panic # ""
    /\ last.clean
    /\ Len(last.path) > 0
    /\ At(last.path, 0) = "/"

\* C30: a rejected insert does not change routing.  When register panics
\* for a pattern and the caller recovers, resolve returns for every
\* request path the same (handler, params, tsr) as before the rejected
\* insert, and the priority of every node still equals the number of
\* handlers in its subtree.
C30_RejectedInsertLeavesRouting ==
    Rejected =>
        /\ \A q \in Requests :
              Lookup(trees, last.method, q) = Lookup(last.before, last.method, q)
        /\ \A n \in NodesIn(trees[last.method]) : CountsHandlers(n)

====
